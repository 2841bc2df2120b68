-------------------------- MODULE TsDemuxing_proofs --------------------------
(***************************************************************************)
(* For any number of PIDs, packets and registrations, made at any moment   *)
(* and from inside any callback: each callback is given the handler of the *)
(* last registration on its PID, and a buffer that starts where a unit     *)
(* does; the origin it can ask for is that of its table; it is called once *)
(* for each unit that starts after it was registered; and every packet is  *)
(* accounted for.                                                          *)
(***************************************************************************)
EXTENDS TsDemuxing, TsSender_proofs, FiniteSetTheorems

CallbackMaps == mTsCallbackMap \cup mPsiCallbackMap \cup mPesCallbackMap

\* A PID with a callback of any kind has the handler registered last.
HandlersInv ==
  /\ registered \in [Pids -> Seq(Registrations)]
  /\ DOMAIN mHandlers = Pids
  /\ CallbackMaps \subseteq Pids
  /\ \A p \in CallbackMaps :
       registered[p] # <<>> /\ mHandlers[p] = Last(registered[p]).hdl

NullPackets == {k \in DOMAIN demuxed : demuxed[k] = NullPid}
InFlight == IF stage = "idle" THEN 0 ELSE 1

\* The packet demux is at work on is counted in none of the ways yet, and no
\* callback runs when demux does not.
CountsInv ==
  /\ mCounters \in [packets : Nat, null : Nat, errors : Nat]
  /\ aborted \in Nat /\ demuxed \in Seq(Pids)
  /\ stage \in {"idle", "ts", "psi", "pes", "end"}
  /\ callback # NoCallback => stage # "idle"
  /\ Len(demuxed) = mCounters.packets + mCounters.null + aborted + InFlight
  /\ mCounters.null = Cardinality(NullPackets)

-----------------------------------------------------------------------------
(* Registrations and handlers *)

\* What a stage calls is registered, and given the handler of its PID.
LEMMA StagesCallHandlers ==
  ASSUME Step, callback = NoCallback, callback' # NoCallback
  PROVE  callback'.pid \in CallbackMaps /\ callback'.hdl = mHandlers[callback'.pid]
<1>1. CASE TsStage
  BY <1>1 DEF TsStage, Call, Proceed, CallbackMaps
<1>2. CASE PsiStage(HoldsSection(Pid, mSectionBuffer'[Pid]))
  <2>1. Pid \in mPsiCallbackMap
    BY <1>2 DEF PsiStage, Proceed
  <2>2. \E raw : Call("pes", "psi", raw)
    BY <1>2, <2>1 DEF PsiStage, CollectTable, Proceed, Abort
  <2> QED
    BY <2>1, <2>2 DEF Call, CallbackMaps
<1>3. CASE PesStage
  <2>1. Pid \in mPesCallbackMap
    BY <1>3 DEF PesStage, Proceed
  <2>2. \E raw : Call("end", "pes", raw)
    BY <1>3, <2>1 DEF PesStage, CollectPes, Proceed
  <2> QED
    BY <2>1, <2>2 DEF Call, CallbackMaps
<1>4. CASE EndStage
  BY <1>4 DEF EndStage
<1>5. CASE CallbackReturns
  BY <1>5 DEF CallbackReturns
<1> QED
  BY <1>1, <1>2, <1>3, <1>4, <1>5 DEF Step

\* Everything but a registration leaves the maps alone.
LEMMA OnlyRegisterRegisters ==
  ASSUME Next, ~Register
  PROVE  UNCHANGED <<registrations, registered>>
<1>1. ASSUME NEW p \in PsiPids \cup PesPids, FeedStart(p) \/ FeedMore(p)
      PROVE  UNCHANGED <<registrations, registered>>
  BY <1>1, ZenonT(60) DEF FeedStart, FeedMore, Feed, demux, registrations
<1>2. CASE FeedNull
  BY <1>2 DEF FeedNull, Feed, demux, registrations
<1>3. CASE GiveOrigin
  BY <1>3 DEF GiveOrigin, setOrigin, history, registrations
<1>4. CASE Step
  <2>1. UNCHANGED registered
    BY <1>4 DEF Step
  <2>2. UNCHANGED registrations
    BY <1>4 DEF Step, TsStage, PsiStage, CollectTable, PesStage, CollectPes, EndStage,
                CallbackReturns
  <2> QED
    BY <2>1, <2>2
<1> QED
  BY <1>1, <1>2, <1>3, <1>4 DEF Next

\* Two states with the same maps have the same handlers.
LEMMA HandlersKept ==
  HandlersInv /\ UNCHANGED <<registrations, registered>> => HandlersInv'
BY DEF HandlersInv, CallbackMaps, registrations

\* A registration of any kind makes its handler that of the PID.
LEMMA RegisterSetsHandler ==
  ASSUME HandlersInv, Register
  PROVE  HandlersInv'
<1>1. PICK r \in Registrations :
        /\ CASE r.kind = "ts"  -> addTsPid(r.pid, r.hdl)
             [] r.kind = "psi" -> addPsiPid(r.pid, r.hdl)
             [] r.kind = "pes" -> addPesPid(r.pid, r.hdl)
        /\ registered' = [registered EXCEPT ![r.pid] = Append(@, r)]
  BY DEF Register
<1>2. r.kind \in {"ts", "psi", "pes"} /\ r.pid \in Pids
  BY RegistrationAssumption
<1>3. /\ mHandlers' = [mHandlers EXCEPT ![r.pid] = r.hdl]
      /\ CallbackMaps' = CallbackMaps \cup {r.pid}
  BY <1>1, <1>2 DEF addTsPid, addPsiPid, addPesPid, Handler, CallbackMaps
<1>4. registered[r.pid] \in Seq(Registrations)
  BY <1>2 DEF HandlersInv
<1>5. /\ Append(registered[r.pid], r) \in Seq(Registrations)
      /\ Append(registered[r.pid], r) # <<>>
      /\ Last(Append(registered[r.pid], r)) = r
  BY <1>4 DEF Last
<1>6. registered' \in [Pids -> Seq(Registrations)]
  BY <1>1, <1>2, <1>5 DEF HandlersInv
<1>7. ASSUME NEW p \in CallbackMaps'
      PROVE  registered'[p] # <<>> /\ mHandlers'[p] = Last(registered'[p]).hdl
  <2>1. CASE p = r.pid
    BY <1>1, <1>2, <1>3, <1>5, <2>1 DEF HandlersInv
  <2>2. CASE p # r.pid
    <3>1. p \in CallbackMaps /\ p \in Pids
      BY <1>3, <2>2 DEF HandlersInv
    <3>2. registered'[p] = registered[p] /\ mHandlers'[p] = mHandlers[p]
      BY <1>1, <1>3, <2>2, <3>1 DEF HandlersInv
    <3> QED
      BY <3>1, <3>2 DEF HandlersInv
  <2> QED
    BY <2>1, <2>2
<1> QED
  BY <1>2, <1>3, <1>6, <1>7 DEF HandlersInv

LEMMA HandlersInductive == Spec => []HandlersInv
<1>1. Init => HandlersInv
  BY DEF Init, InitDemuxer, HandlersInv, CallbackMaps
<1>2. HandlersInv /\ [Next]_vars => HandlersInv'
  <2> SUFFICES ASSUME HandlersInv, [Next]_vars PROVE HandlersInv'
    OBVIOUS
  <2>1. CASE Register
    BY <2>1, RegisterSetsHandler
  <2>2. CASE Next /\ ~Register
    BY <2>2, OnlyRegisterRegisters, HandlersKept
  <2>3. CASE UNCHANGED vars
    BY <2>3, HandlersKept DEF vars, demuxer, history
  <2> QED
    BY <2>1, <2>2, <2>3
<1> QED
  BY <1>1, <1>2, PTL DEF Spec

\* A callback of any kind is given the handler of the last registration on its
\* PID (TsDemuxer::demux and the three add methods).
THEOREM AlwaysTheLastHandler == Spec => HandlerIsTheLast
<1> DEFINE Called == callback = NoCallback /\ callback' # NoCallback =>
                       LET onPid == registered[callback'.pid]
                       IN  onPid # <<>> /\ callback'.hdl = Last(onPid).hdl
<1>1. HandlersInv /\ [Next]_vars => [Called]_vars
  <2> SUFFICES ASSUME HandlersInv, Next, callback = NoCallback, callback' # NoCallback
               PROVE  LET onPid == registered[callback'.pid]
                      IN  onPid # <<>> /\ callback'.hdl = Last(onPid).hdl
    OBVIOUS
  <2>1. Step
    <3>1. ASSUME NEW p \in PsiPids \cup PesPids, FeedStart(p) \/ FeedMore(p)
          PROVE  UNCHANGED callback
      BY <3>1 DEF FeedStart, FeedMore, Feed, demux
    <3>2. FeedNull => UNCHANGED callback
      BY DEF FeedNull, Feed, demux
    <3>3. Register \/ GiveOrigin => UNCHANGED callback
      BY DEF Register, GiveOrigin, setOrigin
    <3> QED
      BY <3>1, <3>2, <3>3 DEF Next
  <2> QED
    BY <2>1, StagesCallHandlers DEF HandlersInv
<1> QED
  BY <1>1, HandlersInductive, PTL DEF Spec, HandlerIsTheLast

-----------------------------------------------------------------------------
(* The packet counters *)

\* Giving demux one more packet.
LEMMA NullPacketsGrow ==
  ASSUME CountsInv, NEW p \in Pids, demuxed' = Append(demuxed, p)
  PROVE  /\ demuxed' \in Seq(Pids) /\ Len(demuxed') = Len(demuxed) + 1
         /\ Cardinality(NullPackets') =
              Cardinality(NullPackets) + (IF p = NullPid THEN 1 ELSE 0)
<1> DEFINE next == Len(demuxed) + 1
<1>1. demuxed \in Seq(Pids)
  BY DEF CountsInv
<1>2. /\ demuxed' \in Seq(Pids) /\ Len(demuxed') = next
      /\ DOMAIN demuxed' = DOMAIN demuxed \cup {next} /\ next \notin DOMAIN demuxed
      /\ demuxed'[next] = p /\ \A k \in DOMAIN demuxed : demuxed'[k] = demuxed[k]
  BY <1>1
<1>3. IsFiniteSet(NullPackets)
  <2>1. IsFiniteSet(1..Len(demuxed))
    BY <1>1, FS_Interval
  <2>2. NullPackets \in SUBSET (1..Len(demuxed))
    BY <1>1 DEF NullPackets
  <2> QED
    BY <2>1, <2>2, FS_Subset
<1>4. Cardinality(NullPackets) \in Nat
  BY <1>3, FS_CardinalityType
<1>5. next \notin NullPackets
  BY <1>2 DEF NullPackets
<1>6. CASE p = NullPid
  <2>1. NullPackets' = NullPackets \cup {next}
    BY <1>2, <1>6 DEF NullPackets
  <2> QED
    BY <1>2, <1>3, <1>5, <1>6, <2>1, FS_AddElement
<1>7. CASE p # NullPid
  <2>1. NullPackets' = NullPackets
    BY <1>2, <1>7 DEF NullPackets
  <2> QED
    BY <1>2, <1>4, <1>7, <2>1
<1> QED
  BY <1>6, <1>7

\* A call of demux counts a null packet at once and puts any other in flight.
LEMMA FeedCounts ==
  ASSUME CountsInv, NEW p \in Pids, NEW pkt, pkt.pid = p,
         demux(pkt), demuxed' = Append(demuxed, p), aborted' = aborted
  PROVE  CountsInv'
<1>1. /\ stage = "idle" /\ callback' = callback /\ callback = NoCallback
      /\ mCounters \in [packets : Nat, null : Nat, errors : Nat] /\ aborted \in Nat
      /\ Len(demuxed) = mCounters.packets + mCounters.null + aborted
      /\ mCounters.null = Cardinality(NullPackets)
  BY DEF CountsInv, demux, InFlight
<1>2. /\ Counted(pkt) \in [packets : Nat, null : Nat, errors : Nat]
      /\ Counted(pkt).packets = mCounters.packets /\ Counted(pkt).null = mCounters.null
  BY <1>1 DEF Counted, Count
<1>3. /\ demuxed' \in Seq(Pids) /\ Len(demuxed') = Len(demuxed) + 1
      /\ Cardinality(NullPackets') =
           Cardinality(NullPackets) + (IF p = NullPid THEN 1 ELSE 0)
  BY NullPacketsGrow
<1>4. CASE p = NullPid
  <2>1. mCounters' = [Counted(pkt) EXCEPT !.null = @ + 1] /\ stage' = "idle"
    BY <1>1, <1>4 DEF demux
  <2>2. /\ mCounters' \in [packets : Nat, null : Nat, errors : Nat]
        /\ mCounters'.packets = mCounters.packets /\ mCounters'.null = mCounters.null + 1
    BY <1>1, <1>2, <2>1
  <2> QED
    BY <1>1, <1>3, <1>4, <2>1, <2>2 DEF CountsInv, InFlight
<1>5. CASE p # NullPid
  <2>1. mCounters' = Counted(pkt) /\ stage' = "ts"
    BY <1>5 DEF demux
  <2> QED
    BY <1>1, <1>2, <1>3, <1>5, <2>1 DEF CountsInv, InFlight
<1> QED
  BY <1>4, <1>5

\* Each stage keeps the packet in flight, or ends the call and counts it once:
\* as a packet, or as one that an exception made demux give up.
LEMMA StepCounts ==
  ASSUME CountsInv, Step
  PROVE  CountsInv'
<1>1. /\ mCounters \in [packets : Nat, null : Nat, errors : Nat] /\ aborted \in Nat
      /\ callback # NoCallback => stage # "idle"
      /\ Len(demuxed) = mCounters.packets + mCounters.null + aborted + InFlight
  BY DEF CountsInv
<1>2. /\ demuxed' = demuxed
      /\ aborted' = IF stage' = "idle" /\ mCounters' = mCounters THEN aborted + 1 ELSE aborted
  BY DEF Step
<1>3. NullPackets' = NullPackets
  BY <1>2 DEF NullPackets
<1>4. ASSUME stage # "idle", stage' \in {"ts", "psi", "pes", "end"}, mCounters' = mCounters
      PROVE  CountsInv'
  BY <1>1, <1>2, <1>3, <1>4 DEF CountsInv, InFlight
<1>5. ASSUME stage # "idle", Abort, callback = NoCallback, mCounters' = mCounters
      PROVE  CountsInv'
  BY <1>1, <1>2, <1>3, <1>5 DEF CountsInv, InFlight, Abort
<1>6. CASE TsStage
  BY <1>4, <1>6 DEF TsStage, Call, Proceed, statistics
<1>7. CASE PsiStage(HoldsSection(Pid, mSectionBuffer'[Pid]))
  <2>1. stage = "psi" /\ callback = NoCallback /\ mCounters' = mCounters
    BY <1>7 DEF PsiStage, CollectTable, statistics
  <2>2. Abort \/ stage' = "pes"
    BY <1>7 DEF PsiStage, CollectTable, Call, Proceed
  <2> QED
    BY <1>4, <1>5, <2>1, <2>2
<1>8. CASE PesStage
  <2>1. stage = "pes" /\ mCounters' = mCounters /\ stage' = "end"
    BY <1>8 DEF PesStage, CollectPes, Call, Proceed, statistics
  <2> QED
    BY <1>4, <2>1
<1>9. CASE EndStage
  <2>1. /\ stage = "end" /\ stage' = "idle" /\ callback' = NoCallback
        /\ mCounters' = [mCounters EXCEPT !.packets = @ + 1]
    BY <1>9 DEF EndStage, Count
  <2>2. /\ mCounters' \in [packets : Nat, null : Nat, errors : Nat]
        /\ mCounters'.packets = mCounters.packets + 1 /\ mCounters'.null = mCounters.null
    BY <1>1, <2>1
  <2>3. aborted' = aborted
    BY <1>1, <1>2, <2>2
  <2>4. demuxed \in Seq(Pids) /\ mCounters.null = Cardinality(NullPackets)
    BY DEF CountsInv
  <2> QED
    BY <1>1, <1>2, <1>3, <2>1, <2>2, <2>3, <2>4 DEF CountsInv, InFlight
<1>10. CASE CallbackReturns
  <2>1. stage # "idle" /\ stage' = stage /\ mCounters' = mCounters /\ callback' = NoCallback
    BY <1>1, <1>10 DEF CallbackReturns, statistics
  <2>2. stage \in {"ts", "psi", "pes", "end"}
    BY <2>1 DEF CountsInv
  <2> QED
    BY <1>4, <2>1, <2>2
<1> QED
  BY <1>6, <1>7, <1>8, <1>9, <1>10 DEF Step

\* What counts does not look at registrations and origins.
LEMMA CountsKept ==
  CountsInv /\ UNCHANGED <<mCounters, aborted, demuxed, stage, callback>> => CountsInv'
BY DEF CountsInv, NullPackets, InFlight

LEMMA CountsInductive == Spec => []CountsInv
<1>1. Init => CountsInv
  <2> SUFFICES ASSUME Init PROVE CountsInv
    OBVIOUS
  <2>1. /\ demuxed = <<>> /\ aborted = 0 /\ stage = "idle" /\ callback = NoCallback
        /\ mCounters = [packets |-> 0, null |-> 0, errors |-> 0]
    BY DEF Init, InitDemuxer
  <2>2. NullPackets = {}
    BY <2>1 DEF NullPackets
  <2> QED
    BY <2>1, <2>2, FS_EmptySet DEF CountsInv, InFlight
<1>2. CountsInv /\ [Next]_vars => CountsInv'
  <2> SUFFICES ASSUME CountsInv, [Next]_vars PROVE CountsInv'
    OBVIOUS
  <2>1. ASSUME NEW p \in Pids, NEW pkt, pkt.pid = p, Feed(p, pkt) PROVE CountsInv'
    <3>1. PICK error \in ErrorIndicators : demux([pkt EXCEPT !.errorIndicator = error])
      BY <2>1 DEF Feed
    <3>2. [pkt EXCEPT !.errorIndicator = error].pid = p
      BY <2>1
    <3>3. demuxed' = Append(demuxed, p) /\ aborted' = aborted
      BY <2>1 DEF Feed
    <3> QED
      BY <3>1, <3>2, <3>3, FeedCounts
  <2>2. ASSUME NEW p \in PsiPids \cup PesPids, FeedStart(p) PROVE CountsInv'
    BY <2>1, <2>2, PidAssumption DEF FeedStart, PayloadPacket, TsPacket
  <2>3. ASSUME NEW p \in PsiPids \cup PesPids, FeedMore(p) PROVE CountsInv'
    BY <2>1, <2>3, PidAssumption DEF FeedMore, PayloadPacket, TsPacket
  <2>4. CASE FeedNull
    BY <2>1, <2>4, PidAssumption DEF FeedNull, PayloadPacket, TsPacket
  <2>5. CASE Register
    BY <2>5, CountsKept DEF Register, statistics
  <2>6. CASE GiveOrigin
    BY <2>6, CountsKept DEF GiveOrigin, setOrigin, statistics, history
  <2>7. CASE Step
    BY <2>7, StepCounts
  <2>8. CASE UNCHANGED vars
    BY <2>8, CountsKept DEF vars, demuxer, statistics, history
  <2> QED
    BY <2>2, <2>3, <2>4, <2>5, <2>6, <2>7, <2>8 DEF Next
<1> QED
  BY <1>1, <1>2, PTL DEF Spec

\* Between two calls every packet was counted once, as a packet, as a null packet or
\* as one that an exception made demux give up.
THEOREM EveryPacketIsAccounted == Spec => []PacketsAccounted
<1>1. CountsInv => PacketsAccounted
  BY DEF CountsInv, PacketsAccounted, InFlight, NullPackets
<1> QED
  BY <1>1, CountsInductive, PTL
-----------------------------------------------------------------------------
(* What the buffers start with *)

Opens(s) == s # <<>> /\ IndexOf(s[1]) = 1
StartsUnit(p, s) == s # <<>> /\ \E u \in DOMAIN units[p] : s[1] = <<p, u, 1>>

\* No unit is without its first packet, and each has its origin noted.
StreamInv ==
  /\ SenderInv
  /\ \A p \in Pids : \A u \in DOMAIN units[p] :
       units[p][u].sent > 0 /\ units[p][u].head \in HeadsOf(p)
  /\ DOMAIN startOrigins = Pids
  /\ \A p \in Pids : IsSeq(startOrigins[p]) /\ Len(startOrigins[p]) = CurrentUnit(p)

RegisteredInv == mPsiCallbackMap \subseteq PsiPids /\ mPesCallbackMap \subseteq PesPids

\* A buffer that starts with the start of a section has that of the section
\* mOrigins is about; and one that can be called back for has such a start.
SectionInv(p) ==
  /\ mSectionBuffer[p] \in Seq(Cell)
  /\ p \notin split /\ mTableId[p] = PSI_TABLE_ID_PMT => Opens(mSectionBuffer[p])
  /\ Opens(mSectionBuffer[p]) =>
       \E u \in DOMAIN units[p] : /\ mSectionBuffer[p][1] = <<p, u, 1>>
                                  /\ mOrigins[p] = startOrigins[p][u]

PesInv(p) ==
  /\ "mPesBuffer" \in DOMAIN mPesPacket[p] /\ mPesPacket[p].mPesBuffer \in Seq(Cell)
  /\ mPesPacket[p] # NoPes => StartsUnit(p, mPesPacket[p].mPesBuffer)

CollectorsInv ==
  /\ DOMAIN mSectionBuffer = Pids /\ DOMAIN mTableId = Pids
  /\ DOMAIN mOrigins = Pids /\ DOMAIN mPesPacket = Pids
  /\ \A p \in PsiPids : SectionInv(p)
  /\ \A p \in PesPids : PesInv(p)

\* A packet of p: the bytes of it that a collector takes as a start begin with the
\* unit that started last, those it appends with no start at all.
FirstBytes(p, pkt) ==
  LET info == parseTsPacketInfo(pkt)
  IN  IF p \in PsiPids THEN TableBytes(pkt, info) ELSE BytesFrom(pkt, info.payloadStartOffset)
MoreBytes(pkt) == BytesFrom(pkt, parseTsPacketInfo(pkt).payloadStartOffset)

StartCarried(p, pkt) ==
  /\ units[p] # <<>> /\ startOrigins[p][CurrentUnit(p)] = mOrigin
  /\ FirstBytes(p, pkt) \in Seq(Cell) /\ FirstBytes(p, pkt) # <<>>
  /\ FirstBytes(p, pkt)[1] = <<p, CurrentUnit(p), 1>>
  /\ p \in PsiPids \ split => Len(FirstBytes(p, pkt)) >= SectionHeaderSize

MoreCarried(pkt) ==
  MoreBytes(pkt) \in Seq(Cell) /\ MoreBytes(pkt) # <<>> /\ ~Opens(MoreBytes(pkt))

Carried(p, pkt) ==
  /\ pkt.pid = p /\ pkt.payload_unit_start_indicator \in BOOLEAN
  /\ IF pkt.payload_unit_start_indicator THEN StartCarried(p, pkt) ELSE MoreCarried(pkt)

FlightInv ==
  stage \in {"ts", "psi", "pes"} => \E p \in PsiPids \cup PesPids : Carried(p, current)

\* What a callback under way was given is still in the buffer of its PID.
CallbackInv ==
  /\ callback.kind = "psi" =>
       /\ callback.pid \in PsiPids /\ callback.raw = mSectionBuffer[callback.pid]
       /\ callback.pid # 0 => mTableId[callback.pid] = PSI_TABLE_ID_PMT
  /\ callback.kind = "pes" => callback.pid \in PesPids /\ StartsUnit(callback.pid, callback.raw)

\* The inductive invariant.  The packet in flight is part of it: it is at work
\* in the collectors stages after the stream has gone on.
StartsInv == StreamInv /\ RegisteredInv /\ CollectorsInv /\ FlightInv /\ CallbackInv
-----------------------------------------------------------------------------
(* The packets that are fed *)

\* The payload of pkt is where the parser looks for it.
PayloadIn(pkt, p, start, head, payload) ==
  /\ pkt.pid = p /\ pkt.payload_unit_start_indicator = start /\ pkt.head = head
  /\ pkt.bytes \in Seq(Cell) /\ Len(pkt.bytes) = TsPacketSize
  /\ Offset(pkt) = TsPacketSize - Len(payload)
  /\ \A i \in DOMAIN payload : pkt.bytes[Offset(pkt) + i] = payload[i]

Marked(p, start, head, payload, error) ==
  [PayloadPacket(p, start, Plain, head, payload) EXCEPT !.errorIndicator = error]

\* transport_error_indicator is all that Feed changes in a packet.
LEMMA MarkedIsFound ==
  ASSUME NEW p \in Pids, NEW start \in BOOLEAN, NEW head, NEW error,
         NEW payload \in Seq(Cell), Len(payload) \in 1..MaxPayload
  PROVE  PayloadIn(Marked(p, start, head, payload, error), p, start, head, payload)
<1> DEFINE sent == PayloadPacket(p, start, Plain, head, payload)
           pkt  == [sent EXCEPT !.errorIndicator = error]
<1>1. /\ sent.pid = p /\ sent.payload_unit_start_indicator = start /\ sent.head = head
      /\ sent.bytes \in Seq(Cell) /\ Len(sent.bytes) = TsPacketSize
      /\ Offset(sent) = TsPacketSize - Len(payload)
      /\ \A i \in DOMAIN payload : sent.bytes[Offset(sent) + i] = payload[i]
  <2> DEFINE flags == Plain
  <2>1. flags \in AfFlags \cup {Plain}
    OBVIOUS
  <2> HIDE DEF flags
  <2>2. PayloadPacket(p, start, Plain, head, payload) = PayloadPacket(p, start, flags, head, payload)
    BY DEF flags
  <2> QED
    BY <2>1, <2>2, PayloadIsFound
<1> HIDE DEF sent
<1>2. /\ pkt.pid = sent.pid /\ pkt.head = sent.head /\ pkt.bytes = sent.bytes
      /\ pkt.payload_unit_start_indicator = sent.payload_unit_start_indicator
      /\ pkt.adaptation_field_control = sent.adaptation_field_control /\ pkt.af = sent.af
  OBVIOUS
<1> HIDE DEF pkt
<1>3. Offset(pkt) = Offset(sent)
  BY <1>2 DEF Offset, parseTsPacketInfo, checkHasPayload, checkHasAdaptationField,
              afterAdaptationField
<1> QED
  BY <1>1, <1>2, <1>3 DEF pkt, sent, Marked, PayloadIn

\* The end of a packet, copied, is what was put there.
LEMMA RunIsCopied ==
  ASSUME NEW bytes \in Seq(Cell), NEW run \in Seq(Cell), NEW offset \in Nat, NEW n \in Nat,
         n = Len(bytes), n = offset + Len(run), run # <<>>,
         \A i \in 1..Len(run) : bytes[offset + i] = run[i]
  PROVE  SubSeq(bytes, offset + 1, n) = run
<1> DEFINE copied == SubSeq(bytes, offset + 1, n)
<1>1. ASSUME NEW i \in (offset + 1)..n PROVE bytes[i] \in Cell
  <2>1. i \in 1..Len(bytes)
    BY <1>1
  <2> QED
    BY <2>1, ElementOfSeq, Zenon
<1>2. offset + 1 \in Int /\ n \in Int /\ offset + 1 <= n /\ n - (offset + 1) + 1 = Len(run)
  OBVIOUS
<1>3. /\ copied \in Seq(Cell) /\ Len(copied) = n - (offset + 1) + 1
      /\ \A i \in 1..(n - (offset + 1) + 1) : copied[i] = bytes[offset + 1 + i - 1]
  BY <1>1, <1>2, SubSeqProperties
<1> HIDE DEF copied
<1>4. Len(copied) = Len(run) /\ \A i \in 1..Len(run) : copied[i] = bytes[offset + i]
  <2>1. \A i \in 1..Len(run) : offset + 1 + i - 1 = offset + i
    OBVIOUS
  <2> QED
    BY <1>2, <1>3, <2>1
<1>5. copied = run
  BY <1>3, <1>4, SeqEqual
<1> QED
  BY <1>5 DEF copied

StartsSection(pkt, p, u, n) ==
  /\ pkt.pid = p /\ pkt.payload_unit_start_indicator = TRUE
  /\ FirstBytes(p, pkt) \in Seq(Cell) /\ Len(FirstBytes(p, pkt)) = n
  /\ FirstBytes(p, pkt)[1] = <<p, u, 1>> /\ FirstBytes(p, pkt) = Cells(p, u, 1, n)

\* A section starts behind the pointer_field.
LEMMA SectionStartIsFound ==
  ASSUME NEW p \in PsiPids, NEW head \in HeadsOf(p), NEW n \in Nat \ {0}, n < MaxPayload,
         NEW u \in Nat, NEW error
  PROVE  StartsSection(Marked(p, TRUE, head, Lead(p) \o Cells(p, u, 1, n), error), p, u, n)
<1> DEFINE payload == Lead(p) \o Cells(p, u, 1, n)
           pkt  == Marked(p, TRUE, head, payload, error)
           run  == Cells(p, u, 1, n)
<1>1. p \in Pids /\ Lead(p) = <<Filler>> /\ Filler \in Cell
  BY PidAssumption DEF Lead, Filler, Cell
<1>2. run \in Seq(Cell) /\ Len(run) = n /\ run[1] = <<p, u, 1>>
  BY <1>1, CellsFromOne
<1> HIDE DEF run
<1>3. /\ payload \in Seq(Cell) /\ Len(payload) = n + 1 /\ payload[2] = <<p, u, 1>>
      /\ \A i \in 1..n : payload[i + 1] = run[i]
  <2> DEFINE lead == <<Filler>>
  <2>1. lead \in Seq(Cell) /\ Len(lead) = 1 /\ Len(run) >= 1
    BY <1>1, <1>2
  <2> HIDE DEF lead
  <2>2. /\ lead \o run \in Seq(Cell) /\ Len(lead \o run) = Len(lead) + Len(run)
        /\ (lead \o run)[Len(lead) + 1] = run[1]
    BY <1>2, <2>1, Joined
  <2>5. ASSUME NEW i \in 1..n PROVE (lead \o run)[i + 1] = run[i]
    <3> DEFINE j == i + 1
    <3>1. j \in 1..(Len(lead) + Len(run)) /\ ~(j <= Len(lead)) /\ j - Len(lead) = i
      BY <1>2, <2>1
    <3> HIDE DEF j
    <3>2. \A k \in 1..(Len(lead) + Len(run)) :
            (lead \o run)[k] = IF k <= Len(lead) THEN lead[k] ELSE run[k - Len(lead)]
      BY <1>2, <2>1, ConcatProperties
    <3>3. (lead \o run)[j] = run[i]
      BY <3>1, <3>2
    <3> QED
      BY <3>3 DEF j
  <2>3. payload = lead \o run
    BY <1>1 DEF lead, run
  <2>4. Len(lead) + Len(run) = n + 1 /\ Len(lead) + 1 = 2
    BY <1>2, <2>1
  <2> HIDE DEF payload
  <2> QED
    BY <1>2, <2>2, <2>3, <2>4, <2>5
<1>4. /\ MaxPayload \in Nat /\ TsPacketSize \in Nat /\ MaxPayload <= TsPacketSize
      /\ Len(payload) \in 1..MaxPayload /\ DOMAIN payload = 1..(n + 1)
  BY <1>3, PacketAssumption DEF MaxPayload
<1> HIDE DEF payload
<1>5. /\ pkt.pid = p /\ pkt.payload_unit_start_indicator = TRUE /\ pkt.head = head
      /\ pkt.bytes \in Seq(Cell) /\ Len(pkt.bytes) = TsPacketSize
      /\ Offset(pkt) = TsPacketSize - Len(payload)
      /\ \A i \in DOMAIN payload : pkt.bytes[Offset(pkt) + i] = payload[i]
  <2> DEFINE start == TRUE
  <2>1. start \in BOOLEAN
    OBVIOUS
  <2> HIDE DEF start, pkt
  <2>2. PayloadIn(Marked(p, start, head, payload, error), p, start, head, payload)
    BY <1>1, <1>3, <1>4, <2>1, MarkedIsFound
  <2> QED
    BY <2>2 DEF start, pkt, PayloadIn
<1> HIDE DEF pkt
<1>6. head.pointer_field = 0
  BY DemuxHeadsAssumption DEF HeadsOf
<1> DEFINE offset == Offset(pkt) + 1
           bytes == pkt.bytes
<1>7. FirstBytes(p, pkt) = BytesFrom(pkt, offset)
  <2>1. tableOffset(pkt, parseTsPacketInfo(pkt)) = Offset(pkt) + 1 + 0
    BY <1>5, <1>6 DEF tableOffset, Offset
  <2>2. Offset(pkt) \in Nat
    BY <1>3, <1>4, <1>5
  <2> QED
    BY <2>1, <2>2 DEF FirstBytes, TableBytes
<1>8. /\ offset \in Nat /\ offset < TsPacketSize /\ TsPacketSize - offset = n
      /\ bytes \in Seq(Cell) /\ Len(bytes) = TsPacketSize /\ pkt.bytes = bytes
      /\ bytes[offset + 1] = <<p, u, 1>>
      /\ \A i \in 1..n : bytes[offset + i] = run[i]
  <2>1. 2 \in DOMAIN payload /\ \A i \in 1..n : i + 1 \in DOMAIN payload
    BY <1>4
  <2>2. Offset(pkt) = TsPacketSize - (n + 1) /\ offset + 1 = Offset(pkt) + 2
    BY <1>3, <1>4, <1>5
  <2>3. ASSUME NEW i \in 1..n PROVE bytes[offset + i] = run[i]
    <3>1. offset + i = Offset(pkt) + (i + 1) /\ i + 1 \in DOMAIN payload
      BY <1>4, <2>1, <2>2
    <3>2. pkt.bytes[Offset(pkt) + (i + 1)] = payload[i + 1]
      BY <1>5, <3>1
    <3> QED
      BY <1>3, <3>1, <3>2
  <2> QED
    BY <1>3, <1>4, <1>5, <2>1, <2>2, <2>3
<1> HIDE DEF bytes, offset
<1>9. /\ BytesFrom(pkt, offset) \in Seq(Cell) /\ Len(BytesFrom(pkt, offset)) = TsPacketSize - offset
      /\ BytesFrom(pkt, offset)[1] = bytes[offset + 1]
  BY <1>8, CopiedFrom
<1>10. BytesFrom(pkt, offset) = run
  <2> DEFINE size == TsPacketSize
  <2>1. size \in Nat /\ size = Len(bytes) /\ size = offset + Len(run) /\ run # <<>>
    BY <1>2, <1>4, <1>8
  <2> HIDE DEF size
  <2>2. SubSeq(bytes, offset + 1, size) = run
    BY <1>2, <1>8, <2>1, RunIsCopied
  <2> QED
    BY <1>8, <2>2 DEF BytesFrom, size
<1> QED
  BY <1>5, <1>7, <1>8, <1>9, <1>10 DEF pkt, payload, run, StartsSection

\* What else is fed is copied from where the payload begins.
LEMMA PayloadIsTaken ==
  ASSUME NEW p \in Pids, NEW start \in BOOLEAN, NEW head, NEW error,
         NEW payload \in Seq(Cell), Len(payload) \in 1..MaxPayload
  PROVE  LET pkt == Marked(p, start, head, payload, error)
         IN  /\ pkt.pid = p /\ pkt.payload_unit_start_indicator = start
             /\ MoreBytes(pkt) \in Seq(Cell) /\ MoreBytes(pkt) # <<>>
             /\ MoreBytes(pkt)[1] = payload[1] /\ MoreBytes(pkt) = payload
<1> DEFINE pkt  == Marked(p, start, head, payload, error)
           offset == Offset(pkt)
           bytes == pkt.bytes
<1>1. /\ pkt.pid = p /\ pkt.payload_unit_start_indicator = start
      /\ pkt.bytes \in Seq(Cell) /\ Len(pkt.bytes) = TsPacketSize
      /\ Offset(pkt) = TsPacketSize - Len(payload)
      /\ \A i \in DOMAIN payload : pkt.bytes[Offset(pkt) + i] = payload[i]
  BY MarkedIsFound DEF PayloadIn
<1> HIDE DEF pkt
<1>2. /\ MaxPayload \in Nat /\ TsPacketSize \in Nat /\ MaxPayload <= TsPacketSize
      /\ 1 \in DOMAIN payload
  BY PacketAssumption DEF MaxPayload
<1>3. /\ offset \in Nat /\ offset < TsPacketSize /\ pkt.bytes = bytes
      /\ bytes \in Seq(Cell) /\ Len(bytes) = TsPacketSize /\ bytes[offset + 1] = payload[1]
      /\ TsPacketSize = offset + Len(payload) /\ payload # <<>>
      /\ \A i \in 1..Len(payload) : bytes[offset + i] = payload[i]
  BY <1>1, <1>2
<1>4. MoreBytes(pkt) = BytesFrom(pkt, offset)
  BY DEF MoreBytes, Offset
<1> HIDE DEF bytes, offset
<1>5. /\ BytesFrom(pkt, offset) \in Seq(Cell) /\ BytesFrom(pkt, offset) # <<>>
      /\ BytesFrom(pkt, offset)[1] = bytes[offset + 1]
  BY <1>3, CopiedFrom
<1>6. BytesFrom(pkt, offset) = payload
  <2> DEFINE size == TsPacketSize
  <2>1. size \in Nat /\ size = Len(bytes) /\ size = offset + Len(payload)
    BY <1>2, <1>3
  <2> HIDE DEF size
  <2>2. SubSeq(bytes, offset + 1, size) = payload
    BY <1>3, <2>1, RunIsCopied
  <2> QED
    BY <1>3, <2>2 DEF BytesFrom, size
<1> QED
  BY <1>1, <1>3, <1>4, <1>5, <1>6 DEF pkt
-----------------------------------------------------------------------------
(* The stream goes on *)

OriginsKept ==
  \A q \in Pids : \A u \in DOMAIN units[q] : startOrigins'[q][u] = startOrigins[q][u]

\* What the buffers start with stays known while the collectors do nothing.
LEMMA GrowthKeepsStarts ==
  ASSUME CollectorsInv, CallbackInv, NEW p \in Pids, OnlyGrows(p), OriginsKept,
         split \subseteq split', UNCHANGED collectors, UNCHANGED callback
  PROVE  CollectorsInv' /\ CallbackInv'
<1>1. \A q \in Pids : \A u \in DOMAIN units[q] : u \in DOMAIN units'[q]
  BY DEF OnlyGrows, Grown
<1>2. /\ mSectionBuffer' = mSectionBuffer /\ mTableId' = mTableId
      /\ mOrigins' = mOrigins /\ mPesPacket' = mPesPacket
  BY DEF collectors, sections
<1>3. PsiPids \subseteq Pids /\ PesPids \subseteq Pids
  BY PidAssumption
<1>4. ASSUME NEW q \in PsiPids PROVE SectionInv(q)'
  <2>1. SectionInv(q)
    BY DEF CollectorsInv
  <2>2. ASSUME Opens(mSectionBuffer[q])
        PROVE  \E u \in DOMAIN units'[q] : /\ mSectionBuffer[q][1] = <<q, u, 1>>
                                           /\ mOrigins[q] = startOrigins'[q][u]
    <3>1. PICK u \in DOMAIN units[q] : /\ mSectionBuffer[q][1] = <<q, u, 1>>
                                       /\ mOrigins[q] = startOrigins[q][u]
      BY <2>1, <2>2 DEF SectionInv
    <3> QED
      BY <1>1, <1>3, <3>1 DEF OriginsKept
  <2> QED
    BY <1>2, <2>1, <2>2 DEF SectionInv, Opens
<1>5. ASSUME NEW q \in PesPids, NEW s, StartsUnit(q, s) PROVE StartsUnit(q, s)'
  BY <1>1, <1>3, <1>5 DEF StartsUnit
<1>6. ASSUME NEW q \in PesPids PROVE PesInv(q)'
  BY <1>2, <1>5, <1>6 DEF CollectorsInv, PesInv, StartsUnit
<1>7. CollectorsInv'
  BY <1>2, <1>4, <1>6 DEF CollectorsInv
<1>8. CallbackInv'
  BY <1>2, <1>5 DEF CallbackInv, StartsUnit
<1> QED
  BY <1>7, <1>8

\* demux begins with a packet of a PID that carries something.
LEMMA FeedIsInFlight ==
  ASSUME NEW p \in PsiPids \cup PesPids, NEW start, NEW head, NEW payload,
         Feed(p, PayloadPacket(p, start, Plain, head, payload))
  PROVE  /\ \E error \in ErrorIndicators : current' = Marked(p, start, head, payload, error)
         /\ stage = "idle" /\ stage' = "ts"
         /\ UNCHANGED <<registrations, mOrigin, collectors, callback>>
<1>1. PICK error \in ErrorIndicators :
        demux([PayloadPacket(p, start, Plain, head, payload) EXCEPT !.errorIndicator = error])
  BY DEF Feed
<1> DEFINE pkt == Marked(p, start, head, payload, error)
<1>2. demux(pkt)
  BY <1>1 DEF Marked
<1>3. pkt.pid = p
  BY DEF Marked, PayloadPacket, TsPacket
<1>4. p # NullPid
  BY PidAssumption
<1> HIDE DEF pkt
<1>5. /\ stage = "idle" /\ stage' = "ts" /\ current' = pkt
      /\ UNCHANGED <<registrations, mOrigin, collectors, callback>>
  BY <1>2, <1>3, <1>4 DEF demux
<1> QED
  BY <1>5 DEF pkt

\* The sizes of what is fed.
LEMMA FedSizes ==
  ASSUME NEW p \in PsiPids \cup PesPids, NEW head \in HeadsOf(p)
  PROVE  /\ UnitSize(p, head) \in Nat \ {0} /\ head \in Heads
         /\ MaxPayload \in Nat /\ MaxPayload > 1
         /\ p \in PesPids => p \notin PsiPids
         /\ p \in PsiPids => Len(Lead(p)) = 1
         /\ p \notin PsiPids => Lead(p) = <<>> /\ Len(Lead(p)) = 0
<1>1. MaxPayload \in Nat /\ MaxPayload > 1
  <2>1. /\ TsHeaderSize \in Nat /\ TsPacketSize \in Nat /\ SectionHeaderSize \in Nat \ {0}
        /\ SectionHeaderSize < TsPacketSize - TsHeaderSize
    BY PacketAssumption, SectionAssumption, DemuxHeadsAssumption DEF MaxPayload
  <2> QED
    BY <2>1 DEF MaxPayload
<1>2. head \in Heads
  BY DEF HeadsOf
<1>3. CASE p \in PsiPids
  <2>1. head.section_length \in Nat /\ TableHeaderSize \in Nat \ {0}
    BY <1>3, DemuxHeadsAssumption, SectionAssumption DEF HeadsOf
  <2>2. UnitSize(p, head) = head.section_length + TableHeaderSize
    BY <1>3 DEF UnitSize
  <2>3. UnitSize(p, head) \in Nat \ {0}
    BY <2>1, <2>2
  <2> QED
    BY <1>1, <1>2, <1>3, <2>3, PidAssumption DEF Lead
<1>4. CASE p \notin PsiPids
  <2>1. head.PES_packet_length \in Nat /\ PesHeaderSize \in Nat \ {0}
    BY <1>4, DemuxHeadsAssumption, PesHeaderAssumption DEF HeadsOf
  <2>2. UnitSize(p, head) = head.PES_packet_length + PesHeaderSize
    BY <1>4 DEF UnitSize
  <2>3. UnitSize(p, head) \in Nat \ {0}
    BY <2>1, <2>2
  <2> QED
    BY <1>1, <1>2, <1>4, <2>3 DEF Lead
<1> QED
  BY <1>3, <1>4

LEMMA FeedStartKeepsStarts ==
  ASSUME StartsInv, NEW p \in PsiPids \cup PesPids, FeedStart(p)
  PROVE  StartsInv'
<1>0. PICK head \in HeadsOf(p) :
      \E n \in {SizeOrLess(MaxPayload - Len(Lead(p)), UnitSize(p, head))}
                \cup IF p \in PsiPids THEN {1} ELSE {} :
        /\ Feed(p, PayloadPacket(p, TRUE, Plain, head,
                                 Lead(p) \o Cells(p, CurrentUnit(p) + 1, 1, n)))
        /\ BeginUnit(p, 0, head, n)
        /\ split' = IF p \in PsiPids /\ n < SectionHeaderSize THEN split \cup {p} ELSE split
  BY DEF FeedStart
<1>1. PICK n \in {SizeOrLess(MaxPayload - Len(Lead(p)), UnitSize(p, head))}
                 \cup IF p \in PsiPids THEN {1} ELSE {} :
        /\ Feed(p, PayloadPacket(p, TRUE, Plain, head,
                                 Lead(p) \o Cells(p, CurrentUnit(p) + 1, 1, n)))
        /\ BeginUnit(p, 0, head, n)
        /\ split' = IF p \in PsiPids /\ n < SectionHeaderSize THEN split \cup {p} ELSE split
  BY <1>0
<1>2. startOrigins' = [startOrigins EXCEPT ![p] = Append(@, mOrigin)]
  BY DEF FeedStart
<1>3. /\ head \in Heads /\ MaxPayload \in Nat
      /\ n \in Nat \ {0} /\ n <= MaxPayload /\ p \in Pids
      /\ p \in PsiPids => n < MaxPayload
  <2> DEFINE size == UnitSize(p, head)
             lead == Len(Lead(p))
             room == MaxPayload - lead
  <2>1. /\ size \in Nat \ {0} /\ head \in Heads
        /\ MaxPayload \in Nat /\ MaxPayload > 1
        /\ p \in PsiPids => lead = 1
        /\ p \notin PsiPids => lead = 0
    BY FedSizes
  <2> HIDE DEF lead
  <2>2. /\ room \in Nat \ {0} /\ room <= MaxPayload
        /\ p \in PsiPids => room < MaxPayload
    <3>1. CASE p \in PsiPids
      BY <2>1, <3>1
    <3>2. CASE p \notin PsiPids
      BY <2>1, <3>2
    <3> QED
      BY <3>1, <3>2
  <2>3. n = (IF room <= size THEN room ELSE size) \/ (p \in PsiPids /\ n = 1)
    BY DEF SizeOrLess, lead
  <2> HIDE DEF size, room
  <2>4. p \in Pids
    BY PidAssumption
  <2> QED
    BY <2>1, <2>2, <2>3, <2>4
<1> DEFINE c == CurrentUnit(p)
           payload == Lead(p) \o Cells(p, c + 1, 1, n)
<1>4. /\ OnlyGrows(p) /\ c \in Nat /\ DOMAIN units'[p] = 1..(c + 1)
      /\ units'[p][c + 1] = [head |-> head, sent |-> n]
      /\ \A u \in DOMAIN units[p] : units'[p][u].sent =
           IF u = c THEN units[p][u].sent + 0 ELSE units[p][u].sent
  <2> DEFINE none == 0
  <2>1. none \in Nat /\ none = 0 /\ SenderInv /\ BeginUnit(p, none, head, n)
    BY <1>1 DEF StartsInv, StreamInv
  <2> HIDE DEF none
  <2>2. /\ OnlyGrows(p) /\ CurrentUnit(p) \in Nat /\ DOMAIN units'[p] = 1..(CurrentUnit(p) + 1)
        /\ units'[p][CurrentUnit(p) + 1] = [head |-> head, sent |-> n]
        /\ \A u \in DOMAIN units[p] : units'[p][u].sent =
             IF u = CurrentUnit(p) THEN units[p][u].sent + none ELSE units[p][u].sent
    BY <1>3, <2>1, BeginGrows
  <2> QED
    BY <2>1, <2>2
<1> HIDE DEF c
<1>5. /\ units'[p] \in Seq(UnitRecord) /\ Len(units'[p]) = c + 1
      /\ DOMAIN units[p] = 1..c /\ c = CurrentUnit(p)
  BY <1>3, <1>4 DEF OnlyGrows, SenderInv, StartsInv, StreamInv, CurrentUnit, c
<1>6. /\ DOMAIN startOrigins' = Pids
      /\ \A q \in Pids : IsSeq(startOrigins'[q]) /\ Len(startOrigins'[q]) = CurrentUnit(q)'
      /\ startOrigins'[p][c + 1] = mOrigin /\ OriginsKept
  <2>1. /\ DOMAIN startOrigins = Pids /\ IsSeq(startOrigins[p]) /\ Len(startOrigins[p]) = c
        /\ \A q \in Pids : IsSeq(startOrigins[q]) /\ Len(startOrigins[q]) = CurrentUnit(q)
    BY <1>3, <1>5 DEF StartsInv, StreamInv
  <2> DEFINE origins == Append(startOrigins[p], mOrigin)
  <2>2. /\ IsSeq(origins) /\ Len(origins) = c + 1 /\ origins[c + 1] = mOrigin
        /\ \A u \in 1..c : origins[u] = startOrigins[p][u]
    <3>1. /\ IsSeq(origins) /\ DOMAIN origins = 1..(c + 1) /\ origins[c + 1] = mOrigin
          /\ \A u \in 1..c : origins[u] = startOrigins[p][u]
      BY <2>1, AppendIsSeq
    <3> HIDE DEF origins
    <3>2. DOMAIN origins = 1..Len(origins) /\ Len(origins) \in Nat
      BY <3>1 DEF IsSeq
    <3>3. Len(origins) = c + 1
      BY <1>4, <3>1, <3>2
    <3> QED
      BY <3>1, <3>3
  <2> HIDE DEF origins
  <2>3. startOrigins'[p] = origins /\ \A q \in Pids \ {p} : startOrigins'[q] = startOrigins[q]
    BY <1>2, <1>3, <2>1 DEF origins
  <2>4. CurrentUnit(p)' = c + 1 /\ \A q \in Pids \ {p} : CurrentUnit(q)' = CurrentUnit(q)
    BY <1>4, <1>5 DEF OnlyGrows, CurrentUnit
  <2>5. OriginsKept
    BY <1>5, <2>2, <2>3 DEF OriginsKept
  <2> QED
    BY <1>2, <1>3, <2>1, <2>2, <2>3, <2>4, <2>5
<1>7. StreamInv'
  <2>1. ASSUME NEW q \in Pids, NEW u \in DOMAIN units'[q] 
        PROVE  units'[q][u].sent > 0 /\ units'[q][u].head \in HeadsOf(q)
    <3>1. CASE q = p /\ u = c + 1
      BY <1>3, <1>4, <3>1
    <3>2. CASE q = p /\ u # c + 1
      <4>1. u \in DOMAIN units[p]
        BY <1>4, <1>5, <3>2
      <4>2. units[p] \in Seq(UnitRecord)
        BY <1>3 DEF StartsInv, StreamInv, SenderInv
      <4>3. units[p][u] \in UnitRecord
        BY <4>1, <4>2
      <4>4. units[p][u].sent > 0 /\ units[p][u].sent \in Nat
        BY <1>3, <4>1, <4>3 DEF StartsInv, StreamInv, UnitRecord
      <4> QED
        BY <1>3, <1>4, <3>2, <4>1, <4>4 DEF OnlyGrows, Grown, StartsInv, StreamInv
    <3>3. CASE q # p
      BY <1>4, <3>3 DEF OnlyGrows, StartsInv, StreamInv
    <3> QED
      BY <3>1, <3>2, <3>3
  <2>2. SenderInv'
    BY <1>4 DEF OnlyGrows
  <2> QED
    BY <1>6, <2>1, <2>2 DEF StreamInv
<1>8. /\ \E error \in ErrorIndicators : current' = Marked(p, TRUE, head, payload, error)
      /\ stage' = "ts" /\ UNCHANGED <<registrations, mOrigin, collectors, callback>>
  BY <1>1, FeedIsInFlight DEF c
<1>9. split \subseteq split'
  BY <1>1
<1>10. CollectorsInv' /\ CallbackInv'
  BY <1>3, <1>4, <1>6, <1>8, <1>9, GrowthKeepsStarts DEF StartsInv
<1>11. RegisteredInv'
  BY <1>8 DEF RegisteredInv, StartsInv, registrations
<1>12. FlightInv'
  <2>1. PICK error \in ErrorIndicators : current' = Marked(p, TRUE, head, payload, error)
    BY <1>8
  <2> DEFINE pkt == Marked(p, TRUE, head, payload, error)
  <2>2. /\ pkt.pid = p /\ pkt.payload_unit_start_indicator = TRUE
        /\ FirstBytes(p, pkt) \in Seq(Cell) /\ FirstBytes(p, pkt) # <<>>
        /\ FirstBytes(p, pkt)[1] = <<p, c + 1, 1>>
        /\ p \in PsiPids => Len(FirstBytes(p, pkt)) = n
    <3>1. CASE p \in PsiPids
      <4> DEFINE u == c + 1
      <4>1. u \in Nat /\ n \in Nat \ {0} /\ n < MaxPayload
        BY <1>3, <1>4, <3>1
      <4>2. payload = Lead(p) \o Cells(p, u, 1, n)
        OBVIOUS
      <4> HIDE DEF u, payload
      <4>3. /\ pkt.pid = p /\ pkt.payload_unit_start_indicator = TRUE
            /\ FirstBytes(p, pkt) \in Seq(Cell) /\ Len(FirstBytes(p, pkt)) = n
            /\ FirstBytes(p, pkt)[1] = <<p, u, 1>>
        <5>1. StartsSection(Marked(p, TRUE, head, Lead(p) \o Cells(p, u, 1, n), error), p, u, n)
          BY <3>1, <4>1, SectionStartIsFound
        <5> QED
          BY <4>2, <5>1 DEF StartsSection
      <4> HIDE DEF pkt
      <4>4. FirstBytes(p, pkt) # <<>>
        BY <4>1, <4>3
      <4> QED
        BY <4>3, <4>4 DEF u
    <3>2. CASE p \notin PsiPids
      <4> DEFINE start == TRUE
                 run == Cells(p, c + 1, 1, n)
      <4>1. run \in Seq(Cell) /\ Len(run) = n /\ run[1] = <<p, c + 1, 1>>
        <5> DEFINE u == c + 1
        <5>1. u \in Nat /\ n \in Nat /\ 1 \in 1..n
          BY <1>3, <1>4
        <5> HIDE DEF u
        <5>2. /\ Cells(p, u, 1, n) \in Seq(Cell) /\ Len(Cells(p, u, 1, n)) = n
              /\ \A i \in 1..n : Cells(p, u, 1, n)[i] = <<p, u, i>>
          BY <1>3, <5>1, CellsFromOne
        <5> QED
          BY <5>1, <5>2 DEF u
      <4> HIDE DEF run
      <4>2. payload = run
        <5>1. payload = <<>> \o run
          BY <3>2, FedSizes DEF run
        <5> QED
          BY <4>1, <5>1
      <4> HIDE DEF payload
      <4>3. payload \in Seq(Cell) /\ Len(payload) \in 1..MaxPayload /\ start \in BOOLEAN
        BY <1>3, <4>1, <4>2
      <4> HIDE DEF start
      <4>4. /\ Marked(p, start, head, payload, error).pid = p
            /\ Marked(p, start, head, payload, error).payload_unit_start_indicator = start
            /\ MoreBytes(Marked(p, start, head, payload, error)) \in Seq(Cell)
            /\ MoreBytes(Marked(p, start, head, payload, error)) # <<>>
            /\ MoreBytes(Marked(p, start, head, payload, error))[1] = payload[1]
        BY <1>3, <4>3, PayloadIsTaken
      <4>5. pkt = Marked(p, start, head, payload, error)
        BY DEF start
      <4>6. FirstBytes(p, pkt) = MoreBytes(pkt)
        BY <3>2 DEF FirstBytes, MoreBytes
      <4> HIDE DEF pkt
      <4> QED
        BY <3>2, <4>1, <4>2, <4>4, <4>5, <4>6 DEF start
    <3> QED
      BY <3>1, <3>2
  <2>3. current' = pkt
    BY <2>1
  <2> HIDE DEF pkt
  <2>4. /\ units'[p] # <<>> /\ CurrentUnit(p)' = c + 1
        /\ startOrigins'[p][c + 1] = mOrigin'
    BY <1>4, <1>5, <1>6, <1>8 DEF CurrentUnit
  <2>5. p \in PsiPids \ split' => n >= SectionHeaderSize
    BY <1>1, <1>3, SectionAssumption
  <2>6. FirstBytes(p, current)' = FirstBytes(p, pkt)
    BY <2>3 DEF FirstBytes
  <2>7. StartCarried(p, current)'
    BY <2>2, <2>4, <2>5, <2>6 DEF StartCarried
  <2>8. Carried(p, current)'
    BY <2>2, <2>3, <2>7 DEF Carried
  <2> QED
    BY <2>8 DEF FlightInv
<1> QED
  BY <1>7, <1>10, <1>11, <1>12 DEF StartsInv
LEMMA FeedMoreKeepsStarts ==
  ASSUME StartsInv, NEW p \in PsiPids \cup PesPids, FeedMore(p)
  PROVE  StartsInv'
<1> DEFINE c == CurrentUnit(p)
           head == units[p][c].head
           sent == units[p][c].sent
           n == SizeOrLess(MaxPayload, Left(p))
           payload == Cells(p, c, sent + 1, sent + n)
<1>1. p \in Pids /\ units[p] \in Seq(UnitRecord) /\ Left(p) > 0
  BY PidAssumption DEF FeedMore, StartsInv, StreamInv, SenderInv
<1>2. /\ units[p] # <<>> /\ c \in Nat \ {0} /\ c \in DOMAIN units[p]
      /\ units[p][c] \in UnitRecord /\ Last(units[p]) = units[p][c]
  BY <1>1 DEF Left, Last, CurrentUnit
<1>3. /\ head \in HeadsOf(p) /\ sent \in Nat \ {0} /\ Left(p) = UnitSize(p, head) - sent
  BY <1>1, <1>2 DEF Left, UnitRecord, StartsInv, StreamInv
<1>4. n \in Nat \ {0} /\ n <= MaxPayload /\ MaxPayload \in Nat
  <2> DEFINE left == Left(p)
  <2>1. UnitSize(p, head) \in Nat /\ MaxPayload \in Nat /\ MaxPayload > 1
    BY <1>3, FedSizes
  <2>2. left \in Int /\ left > 0
    BY <1>1, <1>3, <2>1
  <2> HIDE DEF left
  <2>3. n = IF MaxPayload <= left THEN MaxPayload ELSE left
    BY DEF SizeOrLess, left
  <2> QED
    BY <2>1, <2>2, <2>3
<1>5. /\ Feed(p, PayloadPacket(p, FALSE, Plain, head, payload)) /\ ResumeUnit(p, n)
      /\ startOrigins' = startOrigins /\ split' = split
  BY <1>2 DEF FeedMore
<1>6. payload \in Seq(Cell) /\ Len(payload) = n /\ payload[1] = <<p, c, sent + 1>>
  <2> DEFINE first == sent + 1
             last == sent + n
  <2>1. first \in Nat /\ last \in Nat /\ last - first + 1 = n /\ n > 0 /\ n \in Nat
    BY <1>3, <1>4
  <2> HIDE DEF first, last, n
  <2>2. IsRun(Cells(p, c, first, last), p, c, first, n)
    BY <1>1, <1>2, <2>1, CellsRun
  <2> QED
    BY <2>1, <2>2 DEF IsRun, first, last
<1> HIDE DEF c, head, sent, n, payload
<1>7. /\ OnlyGrows(p) /\ DOMAIN units'[p] = DOMAIN units[p]
      /\ \A u \in DOMAIN units[p] : units'[p][u].sent =
           IF u = c THEN units[p][u].sent + n ELSE units[p][u].sent
  <2>1. SenderInv /\ units[p] # <<>> /\ n \in Nat /\ ResumeUnit(p, n)
    BY <1>2, <1>4, <1>5 DEF StartsInv, StreamInv
  <2> QED
    BY <1>1, <2>1, ResumeGrows DEF c
<1>8. \A q \in Pids : CurrentUnit(q)' = CurrentUnit(q)
  <2>1. units'[p] \in Seq(UnitRecord)
    BY <1>1, <1>7 DEF OnlyGrows, SenderInv
  <2>2. Len(units'[p]) = Len(units[p])
    BY <1>1, <1>7, <2>1
  <2> QED
    BY <1>7, <2>2 DEF OnlyGrows, CurrentUnit
<1>9. StreamInv'
  <2>1. ASSUME NEW q \in Pids, NEW u \in DOMAIN units'[q]
        PROVE  units'[q][u].sent > 0 /\ units'[q][u].head \in HeadsOf(q)
    <3>1. CASE q = p
      <4>1. u \in DOMAIN units[p] /\ units[p][u] \in UnitRecord
        BY <1>1, <1>7, <3>1
      <4>2. units[p][u].sent > 0 /\ units[p][u].sent \in Nat
        BY <1>1, <4>1 DEF StartsInv, StreamInv, UnitRecord
      <4>3. units'[p][u].sent > 0
        BY <1>4, <1>7, <4>1, <4>2
      <4> QED
        BY <1>1, <1>7, <3>1, <4>1, <4>3 DEF OnlyGrows, Grown, StartsInv, StreamInv
    <3>2. CASE q # p
      BY <1>7, <3>2 DEF OnlyGrows, StartsInv, StreamInv
    <3> QED
      BY <3>1, <3>2
  <2>2. SenderInv'
    BY <1>7 DEF OnlyGrows
  <2> QED
    BY <1>5, <1>8, <2>1, <2>2 DEF StreamInv, StartsInv
<1>10. /\ \E error \in ErrorIndicators : current' = Marked(p, FALSE, head, payload, error)
       /\ stage' = "ts" /\ UNCHANGED <<registrations, mOrigin, collectors, callback>>
  BY <1>5, FeedIsInFlight
<1>11. CollectorsInv' /\ CallbackInv'
  <2>1. OriginsKept /\ split \subseteq split'
    BY <1>5 DEF OriginsKept
  <2> QED
    BY <1>1, <1>7, <1>10, <2>1, GrowthKeepsStarts DEF StartsInv
<1>12. RegisteredInv'
  BY <1>10 DEF RegisteredInv, StartsInv, registrations
<1>13. FlightInv'
  <2>1. PICK error \in ErrorIndicators : current' = Marked(p, FALSE, head, payload, error)
    BY <1>10
  <2> DEFINE start == FALSE
             pkt == Marked(p, start, head, payload, error)
  <2>2. start \in BOOLEAN /\ Len(payload) \in 1..MaxPayload
    BY <1>4, <1>6
  <2>3. current' = pkt
    BY <2>1
  <2> HIDE DEF start
  <2>4. /\ pkt.pid = p /\ pkt.payload_unit_start_indicator = start
        /\ MoreBytes(pkt) \in Seq(Cell) /\ MoreBytes(pkt) # <<>>
        /\ MoreBytes(pkt)[1] = payload[1]
    BY <1>1, <1>6, <2>2, PayloadIsTaken
  <2> HIDE DEF pkt
  <2>5. IndexOf(payload[1]) # 1
    BY <1>3, <1>6 DEF IndexOf
  <2>6. MoreCarried(pkt)
    BY <2>4, <2>5 DEF MoreCarried, Opens
  <2>7. MoreCarried(current)'
    BY <2>3, <2>6 DEF MoreCarried, MoreBytes, Opens
  <2>8. Carried(p, current)'
    BY <2>3, <2>4, <2>7 DEF Carried, start
  <2> QED
    BY <2>8 DEF FlightInv
<1> QED
  BY <1>9, <1>11, <1>12, <1>13 DEF StartsInv

\* Nothing that was known of the stream and the collectors is lost by a step that
\* changes neither.
LEMMA StartsKept ==
  ASSUME StartsInv, UNCHANGED <<collectors, units, startOrigins, split>>
  PROVE  StreamInv' /\ CollectorsInv' /\ (UNCHANGED callback => CallbackInv')
<1>1. /\ mSectionBuffer' = mSectionBuffer /\ mTableId' = mTableId
      /\ mOrigins' = mOrigins /\ mPesPacket' = mPesPacket
  BY DEF collectors, sections
<1>2. StreamInv'
  BY DEF StartsInv, StreamInv, SenderInv, CurrentUnit
<1>3. \A q \in PsiPids : SectionInv(q)'
  BY <1>1 DEF StartsInv, CollectorsInv, SectionInv, Opens
<1>4. \A q \in PesPids : PesInv(q)'
  BY <1>1 DEF StartsInv, CollectorsInv, PesInv, StartsUnit
<1>5. CollectorsInv'
  BY <1>1, <1>3, <1>4 DEF StartsInv, CollectorsInv
<1>6. UNCHANGED callback => CallbackInv'
  BY <1>1 DEF StartsInv, CallbackInv, StartsUnit
<1> QED
  BY <1>2, <1>5, <1>6

LEMMA FeedNullKeepsStarts ==
  ASSUME StartsInv, FeedNull
  PROVE  StartsInv'
<1> DEFINE filling == [i \in 1..MaxPayload |-> Filler]
<1>1. Feed(NullPid, PayloadPacket(NullPid, FALSE, Plain, <<>>, filling))
      /\ UNCHANGED <<sender, startOrigins, split>>
  BY DEF FeedNull
<1>2. PICK error \in ErrorIndicators :
        demux([PayloadPacket(NullPid, FALSE, Plain, <<>>, filling) EXCEPT !.errorIndicator = error])
  BY <1>1 DEF Feed
<1> DEFINE pkt == [PayloadPacket(NullPid, FALSE, Plain, <<>>, filling)
                     EXCEPT !.errorIndicator = error]
<1>3. pkt.pid = NullPid
  BY DEF PayloadPacket, TsPacket
<1>4. demux(pkt)
  BY <1>2
<1> HIDE DEF pkt
<1>5. /\ stage = "idle" /\ stage' = stage
      /\ UNCHANGED <<registrations, mOrigin, collectors, callback>>
  BY <1>3, <1>4 DEF demux
<1>6. FlightInv'
  BY <1>5 DEF FlightInv
<1>7. RegisteredInv'
  BY <1>5 DEF RegisteredInv, StartsInv, registrations
<1>8. UNCHANGED units
  BY <1>1 DEF sender
<1> QED
  BY <1>1, <1>5, <1>6, <1>7, <1>8, StartsKept DEF StartsInv

LEMMA ApplicationKeepsStarts ==
  ASSUME StartsInv, Register \/ GiveOrigin
  PROVE  StartsInv'
<1>1. UNCHANGED <<collectors, units, startOrigins, split, callback, stage, current>>
  BY DEF Register, GiveOrigin, setOrigin, sender, history
<1>2. StreamInv' /\ CollectorsInv' /\ CallbackInv'
  BY <1>1, StartsKept
<1>3. CASE Register
  <2>1. PICK r \in Registrations :
          CASE r.kind = "ts"  -> addTsPid(r.pid, r.hdl)
            [] r.kind = "psi" -> addPsiPid(r.pid, r.hdl)
            [] r.kind = "pes" -> addPesPid(r.pid, r.hdl)
    BY <1>3 DEF Register
  <2>2. r.kind \in {"ts", "psi", "pes"}
    BY RegistrationAssumption
  <2>3. RegisteredInv'
    BY <2>1, <2>2, CarriedAssumption
       DEF StartsInv, RegisteredInv, addTsPid, addPsiPid, addPesPid
  <2>4. mOrigin' = mOrigin
    BY <1>3 DEF Register
  <2>5. FlightInv'
    BY <1>1, <2>4 DEF StartsInv, FlightInv, Carried, StartCarried, MoreCarried, FirstBytes,
                      MoreBytes, Opens, CurrentUnit
  <2> QED
    BY <1>2, <2>3, <2>5 DEF StartsInv
<1>4. CASE GiveOrigin
  <2>1. stage = "idle" /\ UNCHANGED registrations
    BY <1>4 DEF GiveOrigin, setOrigin
  <2>2. FlightInv' /\ RegisteredInv'
    BY <1>1, <2>1 DEF FlightInv, StartsInv, RegisteredInv, registrations
  <2> QED
    BY <1>2, <2>2 DEF StartsInv
<1> QED
  BY <1>3, <1>4
-----------------------------------------------------------------------------
(* The stages of demux *)

LEMMA InfoOfCarried ==
  ASSUME NEW p, NEW pkt, Carried(p, pkt)
  PROVE  LET info == parseTsPacketInfo(pkt)
         IN  /\ info.pid = p /\ info.isPayloadStart = pkt.payload_unit_start_indicator
             /\ pkt.payload_unit_start_indicator \in BOOLEAN
             /\ MoreBytes(pkt) = BytesFrom(pkt, info.payloadStartOffset)
             /\ p \in PsiPids => FirstBytes(p, pkt) = TableBytes(pkt, info)
             /\ p \notin PsiPids => FirstBytes(p, pkt) = BytesFrom(pkt, info.payloadStartOffset)
BY DEF Carried, parseTsPacketInfo, MoreBytes, FirstBytes

\* What collectTable leaves of a PID, and that what it would call back for is in
\* the buffer with its table_id.
LEMMA TableStartsKept ==
  ASSUME StartsInv, NEW p \in PsiPids, Carried(p, current), Info.pid = p,
         collectTable(current, Info, mOrigin), UNCHANGED <<units, startOrigins, split>>
  PROVE  /\ DOMAIN mSectionBuffer' = Pids /\ DOMAIN mTableId' = Pids /\ DOMAIN mOrigins' = Pids
         /\ \A q \in PsiPids : SectionInv(q)'
         /\ CallsBack(p, psiOut') /\ p # 0 => mTableId'[p] = PSI_TABLE_ID_PMT
<1> DEFINE first == FirstBytes(p, current)
           rest == MoreBytes(current)
           start == current.payload_unit_start_indicator
           noted == [mOrigins EXCEPT ![p] = mOrigin]
<1>1. /\ Info.isPayloadStart = start /\ start \in BOOLEAN
      /\ rest = BytesFrom(current, Info.payloadStartOffset) /\ first = TableBytes(current, Info)
  BY InfoOfCarried DEF Info
<1>2. start => /\ units[p] # <<>> /\ startOrigins[p][CurrentUnit(p)] = mOrigin
               /\ first \in Seq(Cell) /\ first # <<>> /\ first[1] = <<p, CurrentUnit(p), 1>>
               /\ p \notin split => Len(first) >= SectionHeaderSize
  BY DEF Carried, StartCarried
<1>3. ~start => rest \in Seq(Cell) /\ rest # <<>> /\ ~Opens(rest)
  BY DEF Carried, MoreCarried
<1>4. mOrigins' = IF start THEN noted ELSE mOrigins
  BY <1>1 DEF collectTable, RecordOrigin
<1>5. /\ p \in Pids /\ PsiPids \subseteq Pids /\ DOMAIN mSectionBuffer = Pids
      /\ DOMAIN mTableId = Pids /\ DOMAIN mOrigins = Pids /\ \A q \in PsiPids : SectionInv(q)
  BY PidAssumption DEF StartsInv, CollectorsInv
<1> HIDE DEF first, rest, start, noted
<1>6. DOMAIN mOrigins' = Pids /\ \A q \in Pids \ {p} : mOrigins'[q] = mOrigins[q]
  BY <1>4, <1>5 DEF noted
<1>7. start => mOrigins'[p] = mOrigin
  BY <1>4, <1>5 DEF noted
<1>8. ASSUME NEW buffer, NEW id,
             mSectionBuffer' = [mSectionBuffer EXCEPT ![p] = buffer],
             DOMAIN mTableId' = Pids, mTableId'[p] = id,
             \A q \in Pids \ {p} : mTableId'[q] = mTableId[q],
             buffer \in Seq(Cell),
             p \notin split /\ id = PSI_TABLE_ID_PMT => Opens(buffer),
             Opens(buffer) => \E u \in DOMAIN units[p] : /\ buffer[1] = <<p, u, 1>>
                                                         /\ mOrigins'[p] = startOrigins[p][u]
      PROVE  /\ DOMAIN mSectionBuffer' = Pids /\ DOMAIN mTableId' = Pids
             /\ \A q \in PsiPids : SectionInv(q)'
  <2>1. mSectionBuffer'[p] = buffer
    BY <1>5, <1>8
  <2>2. SectionInv(p)'
    BY <1>8, <2>1 DEF SectionInv, Opens
  <2>3. ASSUME NEW q \in PsiPids, q # p PROVE SectionInv(q)'
    <3>1. mSectionBuffer'[q] = mSectionBuffer[q] /\ mTableId'[q] = mTableId[q]
          /\ mOrigins'[q] = mOrigins[q]
      BY <1>5, <1>6, <1>8, <2>3
    <3>2. SectionInv(q)
      BY <1>5
    <3> QED
      BY <3>1, <3>2 DEF SectionInv, Opens
  <2> QED
    BY <1>5, <1>8, <2>2, <2>3
<1>9. CASE StartTable(current, Info)
  <2>1. /\ start /\ mSectionBuffer' = [mSectionBuffer EXCEPT ![p] = first]
        /\ mTableId' = [mTableId EXCEPT ![p] = NewTableId(@, current.head)]
        /\ psiOut' = CollectedId(p)
    BY <1>1, <1>9 DEF StartTable
  <2> DEFINE id == NewTableId(mTableId[p], current.head)
             u == CurrentUnit(p)
  <2>2. u \in DOMAIN units[p]
    <3>1. units[p] \in Seq(UnitRecord)
      BY <1>5 DEF StartsInv, StreamInv, SenderInv
    <3> QED
      BY <1>2, <2>1, <3>1 DEF CurrentUnit
  <2>3. Opens(first)
    BY <1>2, <2>1 DEF Opens, IndexOf
  <2>4. /\ DOMAIN mTableId' = Pids /\ mTableId'[p] = id
        /\ \A q \in Pids \ {p} : mTableId'[q] = mTableId[q]
    BY <1>5, <2>1
  <2> HIDE DEF id
  <2>5. /\ DOMAIN mSectionBuffer' = Pids /\ DOMAIN mTableId' = Pids
        /\ \A q \in PsiPids : SectionInv(q)'
    BY <1>2, <1>7, <1>8, <2>1, <2>2, <2>3, <2>4
  <2>6. CallsBack(p, psiOut') /\ p # 0 => mTableId'[p] = PSI_TABLE_ID_PMT
    BY <2>1 DEF CallsBack, CollectedId, PSI_TABLE_ID_PMT, PSI_TABLE_ID_INCOMPLETE
  <2> QED
    BY <1>6, <2>5, <2>6
<1>10. CASE SplitHeader(current, Info)
  <2> DEFINE buffer == <<>>
             id == mTableId[p]
  <2>1. /\ start /\ mSectionBuffer' = [mSectionBuffer EXCEPT ![p] = buffer]
        /\ mTableId' = mTableId /\ psiOut' = Throws /\ Len(first) < SectionHeaderSize
    BY <1>1, <1>10 DEF SplitHeader
  <2>2. p \in split
    <3>1. Len(first) \in Nat /\ SectionHeaderSize \in Nat
      BY <1>2, <2>1, SectionAssumption
    <3> QED
      BY <1>2, <2>1, <3>1
  <2>3. buffer \in Seq(Cell) /\ ~Opens(buffer)
    BY DEF Opens
  <2> HIDE DEF buffer, id
  <2>4. /\ DOMAIN mSectionBuffer' = Pids /\ DOMAIN mTableId' = Pids
        /\ \A q \in PsiPids : SectionInv(q)'
    BY <1>5, <1>8, <2>1, <2>2, <2>3 DEF id
  <2>5. ~CallsBack(p, psiOut')
    BY <2>1 DEF CallsBack, Throws, PSI_TABLE_ID_PMT, PSI_TABLE_ID_PAT
  <2> QED
    BY <1>6, <2>4, <2>5
<1>11. CASE AppendTable(current, Info)
  <2> DEFINE old == mSectionBuffer[p]
             buffer == old \o rest
             id == mTableId[p]
  <2>1. /\ ~start /\ mSectionBuffer' = [mSectionBuffer EXCEPT ![p] = buffer]
        /\ mTableId' = mTableId /\ psiOut' = CollectedId(p) /\ mOrigins' = mOrigins
    BY <1>1, <1>4, <1>11 DEF AppendTable
  <2>2. /\ SectionInv(p) /\ old \in Seq(Cell)
        /\ rest \in Seq(Cell) /\ rest # <<>> /\ ~Opens(rest)
    BY <1>3, <1>5, <2>1 DEF SectionInv
  <2>3. /\ DOMAIN mTableId' = Pids /\ mTableId'[p] = id
        /\ \A q \in Pids \ {p} : mTableId'[q] = mTableId[q]
    BY <1>5, <2>1
  <2>4. buffer \in Seq(Cell) /\ buffer # <<>>
        /\ buffer[1] = IF old = <<>> THEN rest[1] ELSE old[1]
    BY <2>2
  <2> HIDE DEF buffer
  <2>5. Opens(buffer) = Opens(old) /\ (Opens(old) => buffer[1] = old[1])
    BY <2>2, <2>4 DEF Opens
  <2>6. p \notin split /\ id = PSI_TABLE_ID_PMT => Opens(buffer)
    BY <2>2, <2>5 DEF SectionInv
  <2>7. Opens(buffer) => \E u \in DOMAIN units[p] : /\ buffer[1] = <<p, u, 1>>
                                                    /\ mOrigins'[p] = startOrigins[p][u]
    BY <2>1, <2>2, <2>5 DEF SectionInv
  <2> HIDE DEF old, id
  <2>8. /\ DOMAIN mSectionBuffer' = Pids /\ DOMAIN mTableId' = Pids
        /\ \A q \in PsiPids : SectionInv(q)'
    BY <1>8, <2>1, <2>3, <2>4, <2>6, <2>7
  <2>9. CallsBack(p, psiOut') /\ p # 0 => mTableId'[p] = PSI_TABLE_ID_PMT
    BY <2>1 DEF CallsBack, CollectedId, PSI_TABLE_ID_PMT, PSI_TABLE_ID_INCOMPLETE
  <2> QED
    BY <1>6, <2>8, <2>9
<1> QED
  BY <1>9, <1>10, <1>11 DEF collectTable

\* What collectPes leaves of a PID and returns.
LEMMA PesStartsKept ==
  ASSUME StartsInv, NEW p \in PesPids, Carried(p, current), Info.pid = p,
         collectPes(current, Info, mOrigin), UNCHANGED <<units, startOrigins, split>>
  PROVE  /\ DOMAIN mPesPacket' = Pids /\ DOMAIN mOrigins' = Pids
         /\ \A q \in Pids \ {p} : mOrigins'[q] = mOrigins[q]
         /\ \A q \in PesPids : PesInv(q)'
         /\ pesOut' # NoPes => StartsUnit(p, pesOut'.mPesBuffer)
<1> DEFINE first == FirstBytes(p, current)
           rest == MoreBytes(current)
           start == current.payload_unit_start_indicator
           old == mPesPacket[p]
<1>1. p \in Pids /\ p \notin PsiPids /\ PesPids \subseteq Pids
  BY PidAssumption
<1>2. /\ Info.isPayloadStart = start /\ start \in BOOLEAN
      /\ rest = BytesFrom(current, Info.payloadStartOffset) /\ first = rest
  BY <1>1, InfoOfCarried DEF Info
<1>3. start => /\ units[p] # <<>> /\ first \in Seq(Cell) /\ first # <<>>
               /\ first[1] = <<p, CurrentUnit(p), 1>>
  BY DEF Carried, StartCarried
<1>4. ~start => rest \in Seq(Cell)
  BY DEF Carried, MoreCarried
<1>5. DOMAIN mOrigins' = Pids /\ \A q \in Pids \ {p} : mOrigins'[q] = mOrigins[q]
  BY <1>1 DEF collectPes, RecordOrigin, StartsInv, CollectorsInv
<1>6. DOMAIN mPesPacket = Pids /\ \A q \in PesPids : PesInv(q)
  BY DEF StartsInv, CollectorsInv
<1>7. /\ "mPesBuffer" \in DOMAIN old /\ old.mPesBuffer \in Seq(Cell)
      /\ old # NoPes => StartsUnit(p, old.mPesBuffer)
  BY <1>6 DEF PesInv
<1> HIDE DEF first, rest, start
<1>8. ASSUME NEW pes, mPesPacket' = [mPesPacket EXCEPT ![p] = pes],
             "mPesBuffer" \in DOMAIN pes, pes.mPesBuffer \in Seq(Cell),
             pes # NoPes => StartsUnit(p, pes.mPesBuffer)
      PROVE  DOMAIN mPesPacket' = Pids /\ \A q \in PesPids : PesInv(q)'
  <2>1. ASSUME NEW q \in PesPids PROVE PesInv(q)'
    <3>1. mPesPacket'[q] = IF q = p THEN pes ELSE mPesPacket[q]
      BY <1>1, <1>6, <1>8
    <3>2. CASE q = p
      BY <1>8, <3>1, <3>2 DEF PesInv, StartsUnit
    <3>3. CASE q # p
      BY <1>6, <3>1, <3>3 DEF PesInv, StartsUnit
    <3> QED
      BY <3>2, <3>3
  <2> QED
    BY <1>6, <1>8, <2>1
<1>9. CASE StartPes(current, Info)
  <2> DEFINE pes == parsePesPacket(current.head, first)
  <2>1. /\ start /\ mPesPacket' = [mPesPacket EXCEPT ![p] = pes]
        /\ pesOut' = old \/ pesOut' = NoPes
    BY <1>2, <1>9 DEF StartPes
  <2>2. "mPesBuffer" \in DOMAIN pes /\ pes.mPesBuffer = first
    BY DEF parsePesPacket
  <2> HIDE DEF pes
  <2>3. StartsUnit(p, first)
    <3>1. units[p] \in Seq(UnitRecord)
      BY <1>1 DEF StartsInv, StreamInv, SenderInv
    <3>2. CurrentUnit(p) \in DOMAIN units[p]
      BY <1>3, <2>1, <3>1 DEF CurrentUnit
    <3> QED
      BY <1>3, <2>1, <3>2 DEF StartsUnit
  <2> QED
    BY <1>3, <1>5, <1>7, <1>8, <2>1, <2>2, <2>3
<1>10. CASE IgnorePes(Info)
  <2>1. mPesPacket' = mPesPacket /\ pesOut' = NoPes
    BY <1>10 DEF IgnorePes
  <2>2. \A q \in PesPids : PesInv(q)'
    BY <1>6, <2>1 DEF PesInv, StartsUnit
  <2> QED
    BY <1>5, <1>6, <2>1, <2>2
<1>11. CASE AppendPes(current, Info)
  <2> DEFINE pes == Extended(old, rest)
  <2>1. /\ ~start /\ old # NoPes /\ pesOut' = (IF Complete(pes) THEN pes ELSE NoPes)
        /\ mPesPacket' = [mPesPacket EXCEPT ![p] = Remaining(pes)]
    BY <1>2, <1>11 DEF AppendPes, Started
  <2>2. "mPesBuffer" \in DOMAIN pes /\ pes.mPesBuffer = old.mPesBuffer \o rest
    BY <1>7 DEF Extended
  <2> HIDE DEF pes
  <2>3. pes.mPesBuffer \in Seq(Cell) /\ StartsUnit(p, pes.mPesBuffer)
    <3> DEFINE bytes == old.mPesBuffer
    <3>1. bytes \in Seq(Cell) /\ bytes # <<>> /\ rest \in Seq(Cell) /\ StartsUnit(p, bytes)
      BY <1>4, <1>7, <2>1 DEF StartsUnit
    <3> HIDE DEF bytes
    <3>2. /\ bytes \o rest \in Seq(Cell) /\ bytes \o rest # <<>>
          /\ (bytes \o rest)[1] = bytes[1]
      BY <3>1
    <3>3. pes.mPesBuffer = bytes \o rest
      BY <2>2 DEF bytes
    <3> QED
      BY <3>1, <3>2, <3>3 DEF StartsUnit
  <2>4. /\ "mPesBuffer" \in DOMAIN NoPes /\ NoPes.mPesBuffer \in Seq(Cell)
    BY DEF NoPes
  <2>5. Remaining(pes) = pes \/ Remaining(pes) = NoPes
    BY DEF Remaining
  <2> DEFINE kept == Remaining(pes)
  <2>6. /\ "mPesBuffer" \in DOMAIN kept /\ kept.mPesBuffer \in Seq(Cell)
        /\ kept # NoPes => StartsUnit(p, kept.mPesBuffer)
    BY <2>2, <2>3, <2>4, <2>5
  <2> HIDE DEF kept
  <2>7. mPesPacket' = [mPesPacket EXCEPT ![p] = kept]
    BY <2>1 DEF kept
  <2>8. DOMAIN mPesPacket' = Pids /\ \A q \in PesPids : PesInv(q)'
    BY <1>8, <2>6, <2>7
  <2> QED
    BY <1>5, <2>1, <2>3, <2>8
<1> QED
  BY <1>9, <1>10, <1>11 DEF collectPes
\* The packet stays in flight, what it carries is not looked at by anything else.
LEMMA FlightKept ==
  ASSUME StartsInv, UNCHANGED <<units, startOrigins, split, mOrigin, current>>,
         stage \in {"ts", "psi", "pes"}
  PROVE  FlightInv'
BY DEF StartsInv, FlightInv, Carried, StartCarried, MoreCarried, FirstBytes, MoreBytes, Opens,
       CurrentUnit

LEMMA PsiStageKeepsStarts ==
  ASSUME StartsInv, PsiStage(HoldsSection(Pid, mSectionBuffer'[Pid])),
         UNCHANGED <<units, startOrigins, split>>
  PROVE  StartsInv'
<1>1. stage = "psi" /\ callback = NoCallback
  BY DEF PsiStage
<1>2. PICK p \in PsiPids \cup PesPids : Carried(p, current)
  BY <1>1 DEF StartsInv, FlightInv
<1>3. Info.pid = p /\ Pid = p
  BY <1>2, InfoOfCarried DEF Info, Pid
<1>4. UNCHANGED <<registrations, mOrigin>>
  BY DEF PsiStage, CollectTable
<1>5. RegisteredInv'
  BY <1>4 DEF StartsInv, RegisteredInv, registrations
<1>6. stage' = "idle" \/ current' = current
  BY DEF PsiStage, CollectTable, Call, Proceed, Abort
<1>7. FlightInv'
  <2>1. CASE stage' = "idle"
    BY <2>1 DEF FlightInv
  <2>2. CASE current' = current
    BY <1>1, <1>4, <2>2, FlightKept
  <2> QED
    BY <1>6, <2>1, <2>2
<1>8. StreamInv'
  BY DEF StartsInv, StreamInv, SenderInv, CurrentUnit
<1>9. CASE Pid \notin mPsiCallbackMap
  <2>1. UNCHANGED collectors /\ UNCHANGED callback
    BY <1>9 DEF PsiStage, Proceed
  <2> QED
    BY <1>5, <1>7, <2>1, StartsKept DEF StartsInv
<1>10. CASE Pid \in mPsiCallbackMap
  <2>1. p \in PsiPids /\ CollectTable(HoldsSection(Pid, mSectionBuffer'[Pid]))
    BY <1>3, <1>10 DEF PsiStage, StartsInv, RegisteredInv
  <2>2. collectTable(current, Info, mOrigin) /\ mPesPacket' = mPesPacket
    BY <2>1 DEF CollectTable
  <2>3. /\ DOMAIN mSectionBuffer' = Pids /\ DOMAIN mTableId' = Pids /\ DOMAIN mOrigins' = Pids
        /\ \A q \in PsiPids : SectionInv(q)'
        /\ CallsBack(p, psiOut') /\ p # 0 => mTableId'[p] = PSI_TABLE_ID_PMT
    BY <1>2, <1>3, <2>1, <2>2, TableStartsKept
  <2>4. \A q \in PesPids : PesInv(q)'
    BY <2>2 DEF StartsInv, CollectorsInv, PesInv, StartsUnit
  <2>5. CollectorsInv'
    BY <2>2, <2>3, <2>4 DEF CollectorsInv, StartsInv
  <2>6. \/ callback' = NoCallback
        \/ /\ CallsBack(p, psiOut')
           /\ callback' = [kind |-> "psi", pid |-> p, hdl |-> mHandlers[p],
                           raw |-> mSectionBuffer'[p]]
    BY <1>1, <1>3, <2>1 DEF CollectTable, Call, Proceed, Abort
  <2>7. CallbackInv'
    <3>1. CASE callback' = NoCallback
      BY <3>1 DEF CallbackInv, NoCallback
    <3>2. CASE /\ CallsBack(p, psiOut')
               /\ callback' = [kind |-> "psi", pid |-> p, hdl |-> mHandlers[p],
                               raw |-> mSectionBuffer'[p]]
      <4>1. callback'.kind = "psi" /\ callback'.pid = p /\ callback'.raw = mSectionBuffer'[p]
        BY <3>2
      <4>2. p # 0 => mTableId'[p] = PSI_TABLE_ID_PMT
        BY <2>3, <3>2
      <4> QED
        BY <2>1, <4>1, <4>2 DEF CallbackInv
    <3> QED
      BY <2>6, <3>1, <3>2
  <2> QED
    BY <1>5, <1>7, <1>8, <2>5, <2>7 DEF StartsInv
<1> QED
  BY <1>9, <1>10

LEMMA PesStageKeepsStarts ==
  ASSUME StartsInv, PesStage, UNCHANGED <<units, startOrigins, split>>
  PROVE  StartsInv'
<1>1. stage = "pes" /\ callback = NoCallback /\ stage' = "end"
  BY DEF PesStage, CollectPes, Call, Proceed
<1>2. PICK p \in PsiPids \cup PesPids : Carried(p, current)
  BY <1>1 DEF StartsInv, FlightInv
<1>3. Info.pid = p /\ Pid = p
  BY <1>2, InfoOfCarried DEF Info, Pid
<1>4. UNCHANGED <<registrations, mOrigin>>
  BY DEF PesStage, CollectPes
<1>5. RegisteredInv'
  BY <1>4 DEF StartsInv, RegisteredInv, registrations
<1>6. FlightInv'
  BY <1>1 DEF FlightInv
<1>7. StreamInv'
  BY DEF StartsInv, StreamInv, SenderInv, CurrentUnit
<1>8. CASE Pid \notin mPesCallbackMap
  <2>1. UNCHANGED collectors /\ UNCHANGED callback
    BY <1>8 DEF PesStage, Proceed
  <2> QED
    BY <1>5, <1>6, <2>1, StartsKept DEF StartsInv
<1>9. CASE Pid \in mPesCallbackMap
  <2>1. p \in PesPids /\ CollectPes
    BY <1>3, <1>9 DEF PesStage, StartsInv, RegisteredInv
  <2>2. collectPes(current, Info, mOrigin) /\ UNCHANGED sections
    BY <2>1 DEF CollectPes
  <2>3. /\ DOMAIN mPesPacket' = Pids /\ DOMAIN mOrigins' = Pids
        /\ \A q \in Pids \ {p} : mOrigins'[q] = mOrigins[q]
        /\ \A q \in PesPids : PesInv(q)'
        /\ pesOut' # NoPes => StartsUnit(p, pesOut'.mPesBuffer)
    BY <1>2, <1>3, <2>1, <2>2, PesStartsKept
  <2>4. mSectionBuffer' = mSectionBuffer /\ mTableId' = mTableId
    BY <2>2 DEF sections
  <2>5. ASSUME NEW q \in PsiPids PROVE SectionInv(q)'
    <3>1. mOrigins'[q] = mOrigins[q]
      BY <2>1, <2>3, PidAssumption
    <3>2. SectionInv(q)
      BY DEF StartsInv, CollectorsInv
    <3> QED
      BY <2>4, <3>1, <3>2 DEF SectionInv, Opens
  <2>6. CollectorsInv'
    BY <2>3, <2>4, <2>5 DEF CollectorsInv, StartsInv
  <2>7. \/ callback' = NoCallback
        \/ /\ pesOut' # NoPes
           /\ callback' = [kind |-> "pes", pid |-> p, hdl |-> mHandlers[p],
                           raw |-> pesOut'.mPesBuffer]
    BY <1>1, <1>3, <2>1 DEF CollectPes, Call, Proceed
  <2>8. CallbackInv'
    <3>1. CASE callback' = NoCallback
      BY <3>1 DEF CallbackInv, NoCallback
    <3>2. CASE /\ pesOut' # NoPes
               /\ callback' = [kind |-> "pes", pid |-> p, hdl |-> mHandlers[p],
                               raw |-> pesOut'.mPesBuffer]
      <4>1. /\ callback'.kind = "pes" /\ callback'.pid = p
            /\ callback'.raw = pesOut'.mPesBuffer /\ StartsUnit(p, pesOut'.mPesBuffer)
        BY <2>3, <3>2
      <4>2. StartsUnit(callback.pid, callback.raw)'
        BY <4>1 DEF StartsUnit
      <4> QED
        BY <2>1, <4>1, <4>2 DEF CallbackInv
    <3> QED
      BY <2>7, <3>1, <3>2
  <2> QED
    BY <1>5, <1>6, <1>7, <2>6, <2>8 DEF StartsInv
<1> QED
  BY <1>8, <1>9

LEMMA StepKeepsStarts ==
  ASSUME StartsInv, Step
  PROVE  StartsInv'
<1>1. UNCHANGED <<units, startOrigins, split>>
  BY DEF Step, sender
<1>2. CASE TsStage
  <2>1. /\ UNCHANGED <<registrations, mOrigin, collectors, current>>
        /\ stage = "ts" /\ callback = NoCallback
        /\ callback' = NoCallback \/ callback'.kind = "ts"
    BY <1>2 DEF TsStage, Call, Proceed
  <2>2. FlightInv'
    BY <1>1, <2>1, FlightKept
  <2>3. RegisteredInv' /\ CallbackInv'
    BY <2>1 DEF StartsInv, RegisteredInv, CallbackInv, NoCallback, registrations
  <2> QED
    BY <1>1, <2>1, <2>2, <2>3, StartsKept DEF StartsInv
<1>3. CASE PsiStage(HoldsSection(Pid, mSectionBuffer'[Pid]))
  BY <1>1, <1>3, PsiStageKeepsStarts
<1>4. CASE PesStage
  BY <1>1, <1>4, PesStageKeepsStarts
<1>5. CASE EndStage
  <2>1. UNCHANGED <<registrations, collectors, callback>> /\ stage' = "idle"
    BY <1>5 DEF EndStage
  <2>2. FlightInv' /\ RegisteredInv'
    BY <2>1 DEF StartsInv, FlightInv, RegisteredInv, registrations
  <2> QED
    BY <1>1, <2>1, <2>2, StartsKept DEF StartsInv
<1>6. CASE CallbackReturns
  <2>1. /\ UNCHANGED <<registrations, mOrigin, collectors, stage, current>>
        /\ callback' = NoCallback
    BY <1>6 DEF CallbackReturns
  <2>2. FlightInv'
    BY <1>1, <2>1, FlightKept DEF FlightInv
  <2>3. RegisteredInv' /\ CallbackInv'
    BY <2>1 DEF StartsInv, RegisteredInv, CallbackInv, NoCallback, registrations
  <2> QED
    BY <1>1, <2>1, <2>2, <2>3, StartsKept DEF StartsInv
<1> QED
  BY <1>2, <1>3, <1>4, <1>5, <1>6 DEF Step

LEMMA StartsInductive == Spec => []StartsInv
<1>1. Init => StartsInv
  <2> SUFFICES ASSUME Init PROVE StartsInv
    OBVIOUS
  <2>1. /\ units = [p \in Pids |-> <<>>] /\ startOrigins = [p \in Pids |-> <<>>]
        /\ mPsiCallbackMap = {} /\ mPesCallbackMap = {} /\ stage = "idle"
        /\ callback = NoCallback /\ mOrigins = [p \in Pids |-> 0]
        /\ mSectionBuffer = [p \in Pids |-> <<>>]
        /\ mTableId = [p \in Pids |-> PSI_TABLE_ID_PAT] /\ mPesPacket = [p \in Pids |-> NoPes]
    BY DEF Init, InitDemuxer, InitSender, InitSections, InitPes, InitOrigins
  <2>2. PsiPids \subseteq Pids /\ PesPids \subseteq Pids
    BY PidAssumption
  <2>3. StreamInv
    <3>1. SenderInv
      BY <2>1 DEF SenderInv
    <3>2. ASSUME NEW p \in Pids
          PROVE  IsSeq(startOrigins[p]) /\ Len(startOrigins[p]) = CurrentUnit(p)
      BY <2>1, <3>2 DEF IsSeq, CurrentUnit
    <3>3. ASSUME NEW p \in Pids PROVE DOMAIN units[p] = {}
      <4>1. units[p] = <<>> /\ DOMAIN units[p] = 1..Len(units[p]) /\ Len(units[p]) = 0
        BY <2>1
      <4> QED
        BY <4>1
    <3> QED
      BY <2>1, <3>1, <3>2, <3>3 DEF StreamInv
  <2>4. ASSUME NEW p \in PsiPids PROVE SectionInv(p)
    BY <2>1, <2>2, <2>4 DEF SectionInv, Opens, PSI_TABLE_ID_PAT, PSI_TABLE_ID_PMT
  <2>5. ASSUME NEW p \in PesPids PROVE PesInv(p)
    BY <2>1, <2>2, <2>5 DEF PesInv, NoPes
  <2>6. CollectorsInv
    BY <2>1, <2>4, <2>5 DEF CollectorsInv
  <2>7. RegisteredInv /\ FlightInv /\ CallbackInv
    BY <2>1 DEF RegisteredInv, FlightInv, CallbackInv, NoCallback
  <2> QED
    BY <2>3, <2>6, <2>7 DEF StartsInv
<1>2. StartsInv /\ [Next]_vars => StartsInv'
  <2> SUFFICES ASSUME StartsInv, [Next]_vars PROVE StartsInv'
    OBVIOUS
  <2>1. ASSUME NEW p \in PsiPids \cup PesPids, FeedStart(p) \/ FeedMore(p) PROVE StartsInv'
    BY <2>1, FeedStartKeepsStarts, FeedMoreKeepsStarts
  <2>2. CASE FeedNull
    BY <2>2, FeedNullKeepsStarts
  <2>3. CASE Register \/ GiveOrigin
    BY <2>3, ApplicationKeepsStarts
  <2>4. CASE Step
    BY <2>4, StepKeepsStarts
  <2>5. CASE UNCHANGED vars
    <3>1. /\ UNCHANGED <<collectors, units, startOrigins, split, callback>>
          /\ UNCHANGED <<registrations, stage, current, mOrigin>>
      BY <2>5 DEF vars, demuxer, history, sender
    <3>2. FlightInv' /\ RegisteredInv'
      BY <3>1, FlightKept DEF StartsInv, FlightInv, RegisteredInv, registrations
    <3> QED
      BY <3>1, <3>2, StartsKept DEF StartsInv
  <2> QED
    BY <2>1, <2>2, <2>3, <2>4, <2>5 DEF Next
<1> QED
  BY <1>1, <1>2, PTL DEF Spec

\* No callback, however late or from inside whatever callback it was registered, is
\* given a unit without its start: not by collectPes, which ignores what comes
\* before a start, nor by collectTable, which appends it to an empty buffer but knows no
\* table_id of it.
THEOREM LateJoinIsAlwaysClean == Spec => []LateJoinIsClean
<1>1. StartsInv => LateJoinIsClean
  <2> SUFFICES ASSUME StartsInv, callback.kind \in {"psi", "pes"},
                      callback.pid \notin split \cup {0}
               PROVE  callback.raw[1] \in {<<callback.pid, u, 1>> : u \in DOMAIN units[callback.pid]}
    BY DEF LateJoinIsClean
  <2>1. CASE callback.kind = "psi"
    <3> DEFINE p == callback.pid
    <3>1. p \in PsiPids /\ callback.raw = mSectionBuffer[p] /\ mTableId[p] = PSI_TABLE_ID_PMT
      BY <2>1 DEF StartsInv, CallbackInv
    <3>2. SectionInv(p)
      BY <3>1 DEF StartsInv, CollectorsInv
    <3> QED
      BY <3>1, <3>2 DEF SectionInv
  <2>2. CASE callback.kind = "pes"
    BY <2>2 DEF StartsInv, CallbackInv, StartsUnit
  <2> QED
    BY <2>1, <2>2
<1> QED
  BY <1>1, StartsInductive, PTL

\* Inside a PSI callback getOrigin gives the origin of the packet in which the table
\* started, whatever was set, registered or appended since.
THEOREM OriginIsAlwaysOfTheTable == Spec => []TableOrigin
<1>1. StartsInv => TableOrigin
  <2> SUFFICES ASSUME StartsInv, callback.kind = "psi",
                      HoldsSection(callback.pid, callback.raw)
               PROVE  mOrigins[callback.pid] = startOrigins[callback.pid][UnitOf(callback.raw[1])]
    BY DEF TableOrigin
  <2> DEFINE p == callback.pid
             raw == callback.raw
  <2>1. p \in PsiPids /\ raw = mSectionBuffer[p] /\ p \in Pids /\ SectionInv(p)
    BY PidAssumption DEF StartsInv, CallbackInv, CollectorsInv
  <2>2. raw \in Seq(Cell)
    BY <2>1 DEF SectionInv
  <2> HIDE DEF p, raw
  <2>3. Opens(raw)
    <3>1. PICK u \in DOMAIN units[p] :
            LET size == UnitSize(p, units[p][u].head)
            IN  size <= Len(raw) /\ SubSeq(raw, 1, size) = Cells(p, u, 1, size)
      BY DEF HoldsSection, p, raw
    <3> DEFINE size == UnitSize(p, units[p][u].head)
    <3>2. units[p][u].head \in HeadsOf(p) /\ units[p] \in Seq(UnitRecord)
      BY <2>1 DEF StartsInv, StreamInv, SenderInv
    <3>3. size \in Nat \ {0} /\ u \in Nat
      BY <2>1, <3>2, FedSizes
    <3>4. size <= Len(raw) /\ SubSeq(raw, 1, size) = Cells(p, u, 1, size)
      BY <3>1
    <3> HIDE DEF size
    <3>5. Cells(p, u, 1, size)[1] = <<p, u, 1>>
      BY <2>1, <3>3, CellsFromOne
    <3>6. raw # <<>> /\ SubSeq(raw, 1, size)[1] = raw[1]
      BY <2>2, <3>3, <3>4
    <3>7. raw[1] = <<p, u, 1>>
      BY <3>4, <3>5, <3>6
    <3> QED
      BY <3>6, <3>7 DEF Opens, IndexOf
  <2>4. PICK u \in DOMAIN units[p] : raw[1] = <<p, u, 1>> /\ mOrigins[p] = startOrigins[p][u]
    BY <2>1, <2>3 DEF SectionInv
  <2> QED
    BY <2>4 DEF UnitOf, p, raw
<1> QED
  BY <1>1, StartsInductive, PTL
-----------------------------------------------------------------------------
(* The units a callback is given *)

Listening(p) == p \in mPsiCallbackMap \cup mPesCallbackMap

\* A list of units of p as they are sent: one after the other, in packets that are
\* full or end with the unit.
Ordered(p, list) ==
  /\ list \in Seq(UnitRecord)
  /\ \A u \in DOMAIN list :
       LET size == UnitSize(p, list[u].head)
       IN  /\ list[u].head \in HeadsOf(p) /\ list[u].sent \in 1..size
           /\ u < Len(list) => list[u].sent = size
           /\ p \in PesPids => list[u].sent >= MaxPayload \/ list[u].sent = size

\* The packet in flight is one of p that has not been to the collector of p.
Ahead(p) ==
  /\ current.pid = p
  /\ stage \in IF p \in PsiPids THEN {"ts", "psi"} ELSE {"ts", "psi", "pes"}

\* What the packet in flight brings the collector that has seen the units before it.
Brings(p, seen) ==
  LET c == CurrentUnit(p)
      unit == units[p][c]
  IN  IF current.payload_unit_start_indicator
      THEN /\ Begun(seen, units[p]) /\ current.head = unit.head
           /\ FirstBytes(p, current) = Cells(p, c, 1, unit.sent)
           /\ p \in PesPids => unit.sent <= MaxPayload
      ELSE /\ seen # <<>> /\ GrownBy(seen, units[p], Len(MoreBytes(current)))
           /\ MoreBytes(current) = Cells(p, c, seen[c].sent + 1, unit.sent)

Seen(p, seen) ==
  /\ Ordered(p, seen)
  /\ IF Ahead(p) THEN Brings(p, seen) ELSE seen = units[p]

\* Nothing has been collected of p.
Untouched(p) ==
  IF p \in PsiPids THEN mTableId[p] = PSI_TABLE_ID_PAT ELSE mPesPacket[p] = NoPes

\* The collector has exactly what was sent of the last unit it was given.
HasTable(p, u, unit) ==
  /\ mSectionBuffer[p] = Cells(p, u, 1, unit.sent) /\ mReadSectionLength[p] = unit.sent
  /\ mSectionLength[p] = UnitSize(p, unit.head) /\ mTableId[p] = unit.head.table_id

HasPes(p, unit) ==
  LET pes == mPesPacket[p]
      size == UnitSize(p, unit.head)
  IN  IF unit.sent = size /\ size > MaxPayload THEN pes = NoPes
      ELSE /\ {"mPesBuffer", "PES_packet_length"} \subseteq DOMAIN pes
           /\ pes.PES_packet_length = unit.head.PES_packet_length
           /\ Len(pes.mPesBuffer) = unit.sent

Holds(p, u, unit) == IF p \in PsiPids THEN HasTable(p, u, unit) ELSE HasPes(p, unit)

\* A callback has been given what is due of the units that were seen.
Answered(p, seen) ==
  LET u == Len(seen)
  IN  /\ missed[p] \in 0..u /\ called[p] = Cardinality(DueOf(p, seen, missed[p]))
      /\ IF missed[p] = u THEN Untouched(p) ELSE Holds(p, u, seen[u])

Joins(p, seen) ==
  /\ Seen(p, seen)
  /\ Listening(p) /\ p \notin split \cup {0} => Answered(p, seen)

JoinInv(p) ==
  /\ Ordered(p, units[p])
  /\ ~Listening(p) => called[p] = 0 /\ Untouched(p)
  /\ \E seen : Joins(p, seen)

CallsInv ==
  /\ stage \in {"idle", "ts"} => callback = NoCallback
  /\ DOMAIN missed = Pids /\ DOMAIN called = Pids
  /\ DOMAIN mSectionLength = Pids /\ DOMAIN mReadSectionLength = Pids
  /\ \A p \in PsiPids \cup PesPids : JoinInv(p)
-----------------------------------------------------------------------------
(* Counting what is due *)

\* What is due can be counted.
LEMMA DueIsCounted ==
  ASSUME NEW p, NEW list \in Seq(UnitRecord), NEW before
  PROVE  IsFiniteSet(DueOf(p, list, before)) /\ Cardinality(DueOf(p, list, before)) \in Nat
<1> DEFINE due == DueOf(p, list, before)
<1>1. IsFiniteSet(1..Len(list))
  BY FS_Interval
<1>2. due \in SUBSET (1..Len(list))
  BY DEF DueOf
<1> QED
  BY <1>1, <1>2, FS_Subset, FS_CardinalityType

\* One unit makes the difference between two lists.
LEMMA DueGrows ==
  ASSUME NEW p, NEW old \in Seq(UnitRecord), NEW new \in Seq(UnitRecord), NEW before \in Nat,
         NEW x \in DOMAIN new, DOMAIN old \subseteq DOMAIN new,
         ~(x \in DOMAIN old /\ IsDue(p, old, x)),
         \A u \in DOMAIN new \ {x} :
           u > before => (IsDue(p, new, u) <=> u \in DOMAIN old /\ IsDue(p, old, u))
  PROVE  Cardinality(DueOf(p, new, before)) =
           Cardinality(DueOf(p, old, before))
             + (IF x > before /\ IsDue(p, new, x) THEN 1 ELSE 0)
<1> DEFINE was == DueOf(p, old, before)
           is == DueOf(p, new, before)
<1>1. IsFiniteSet(was)
  BY DueIsCounted
<1>2. Cardinality(was) \in Nat
  BY DueIsCounted
<1>3. x \notin was
  BY DEF DueOf
<1>4. CASE x > before /\ IsDue(p, new, x)
  <2>1. is = was \cup {x}
    BY <1>4 DEF DueOf
  <2> QED
    BY <1>1, <1>2, <1>3, <1>4, <2>1, FS_AddElement
<1>5. CASE ~(x > before /\ IsDue(p, new, x))
  <2>1. is = was
    BY <1>5 DEF DueOf
  <2> QED
    BY <1>2, <1>5, <2>1
<1> QED
  BY <1>4, <1>5

\* Nothing is due of units that were missed.
LEMMA NoneDue ==
  ASSUME NEW p, NEW list \in Seq(UnitRecord)
  PROVE  Cardinality(DueOf(p, list, Len(list))) = 0
<1>1. DueOf(p, list, Len(list)) = {}
  BY DEF DueOf
<1> QED
  BY <1>1, FS_EmptySet

\* The last unit of a list as it is sent.
LEMMA LastOfOrdered ==
  ASSUME NEW p, NEW list, Ordered(p, list), list # <<>>
  PROVE  LET n == Len(list)
             size == UnitSize(p, list[n].head)
         IN  /\ n \in Nat \ {0} /\ DOMAIN list = 1..n /\ list \in Seq(UnitRecord)
             /\ list[n].head \in HeadsOf(p) /\ list[n].sent \in 1..size
             /\ p \in PesPids => list[n].sent >= MaxPayload \/ list[n].sent = size
BY DEF Ordered

\* A section that begins is due when it is all there.
LEMMA BegunTableIsDue ==
  ASSUME NEW p \in PsiPids, NEW old, NEW new, Ordered(p, old), Ordered(p, new),
         Begun(old, new), NEW before \in 0..Len(old)
  PROVE  Cardinality(DueOf(p, new, before)) =
           Cardinality(DueOf(p, old, before)) + (IF IsDue(p, new, Len(new)) THEN 1 ELSE 0)
<1> DEFINE x == Len(new)
<1>1. /\ old \in Seq(UnitRecord) /\ new \in Seq(UnitRecord) /\ x = Len(old) + 1
      /\ DOMAIN old = 1..Len(old) /\ DOMAIN new = 1..x /\ Len(old) \in Nat
      /\ \A u \in 1..Len(old) : new[u] = old[u]
  BY DEF Ordered, Begun
<1> HIDE DEF x
<1>2. x \in DOMAIN new /\ x \notin DOMAIN old /\ DOMAIN old \subseteq DOMAIN new /\ x > before
      /\ before \in Nat
  BY <1>1
<1>3. ASSUME NEW u \in DOMAIN new \ {x}
      PROVE  IsDue(p, new, u) <=> u \in DOMAIN old /\ IsDue(p, old, u)
  <2>1. u \in DOMAIN old /\ new[u] = old[u]
    BY <1>1, <1>3
  <2> QED
    BY <2>1 DEF IsDue
<1>4. Cardinality(DueOf(p, new, before)) =
        Cardinality(DueOf(p, old, before)) + (IF x > before /\ IsDue(p, new, x) THEN 1 ELSE 0)
  BY <1>1, <1>2, <1>3, DueGrows
<1> QED
  BY <1>2, <1>4 DEF x

\* A PES packet that begins makes the one before due, when that one fits a TS packet.
LEMMA BegunPesIsDue ==
  ASSUME NEW p \in PesPids, NEW old, NEW new, Ordered(p, old), Ordered(p, new),
         Begun(old, new), new[Len(new)].sent <= MaxPayload, NEW before \in 0..Len(old)
  PROVE  Cardinality(DueOf(p, new, before)) =
           Cardinality(DueOf(p, old, before)) +
             (IF before < Len(old) /\ UnitSize(p, old[Len(old)].head) <= MaxPayload
              THEN 1 ELSE 0)
<1> DEFINE n == Len(old)
<1>1. /\ old \in Seq(UnitRecord) /\ new \in Seq(UnitRecord) /\ Len(new) = n + 1
      /\ DOMAIN old = 1..n /\ DOMAIN new = 1..(n + 1) /\ n \in Nat
      /\ \A u \in 1..n : new[u] = old[u]
  BY DEF Ordered, Begun
<1>2. p \notin PsiPids /\ before \in Nat /\ before <= n
  BY <1>1, PidAssumption
<1> HIDE DEF n
<1>3. ASSUME NEW u \in DOMAIN new, u # n
      PROVE  IsDue(p, new, u) <=> u \in DOMAIN old /\ IsDue(p, old, u)
  <2>1. CASE u \in DOMAIN old
    <3>1. new[u] = old[u] /\ u < Len(new) /\ u < Len(old)
      BY <1>1, <1>3, <2>1 DEF n
    <3> QED
      BY <1>2, <2>1, <3>1 DEF IsDue
  <2>2. CASE u \notin DOMAIN old
    <3>1. u = n + 1 /\ u = Len(new) /\ new # <<>>
      BY <1>1, <2>2
    <3> DEFINE size == UnitSize(p, new[u].head)
    <3>2. new[u].head \in HeadsOf(p)
      BY <3>1, LastOfOrdered
    <3>3. size \in Nat /\ MaxPayload \in Nat
      BY <3>2, FedSizes
    <3>4. new[u].sent <= MaxPayload /\ ~(u < Len(new))
      BY <1>1, <3>1
    <3>5. ~IsDue(p, new, u)
      BY <1>2, <3>3, <3>4 DEF IsDue
    <3> QED
      BY <2>2, <3>5
  <2> QED
    BY <2>1, <2>2
<1>4. CASE n = 0
  <2> DEFINE x == n + 1
  <2>1. x \in DOMAIN new /\ x \notin DOMAIN old /\ DOMAIN old \subseteq DOMAIN new /\ x # n
    BY <1>1
  <2>2. ~IsDue(p, new, x)
    BY <1>3, <2>1
  <2> HIDE DEF x
  <2>3. \A u \in DOMAIN new \ {x} :
          u > before => (IsDue(p, new, u) <=> u \in DOMAIN old /\ IsDue(p, old, u))
    BY <1>1, <1>4 DEF x
  <2>4. Cardinality(DueOf(p, new, before)) =
          Cardinality(DueOf(p, old, before)) + (IF x > before /\ IsDue(p, new, x) THEN 1 ELSE 0)
    BY <1>1, <1>2, <2>1, <2>3, DueGrows
  <2> QED
    BY <1>2, <1>4, <2>2, <2>4 DEF n
<1>5. CASE n # 0
  <2> DEFINE size == UnitSize(p, old[n].head)
  <2>1. old # <<>> /\ n \in DOMAIN new /\ n \in DOMAIN old /\ DOMAIN old \subseteq DOMAIN new
    BY <1>1, <1>5
  <2>2. old[n].head \in HeadsOf(p) /\ new[n] = old[n] /\ new[n].head = old[n].head
    BY <1>1, <2>1, LastOfOrdered DEF n
  <2>3. size \in Nat /\ MaxPayload \in Nat
    BY <2>2, FedSizes
  <2>4. new[n].sent = size /\ n < Len(new) /\ ~(n < Len(old))
    BY <1>1, <2>1, <2>2 DEF Ordered, n
  <2>5. IsDue(p, new, n)
    BY <1>2, <2>2, <2>4 DEF IsDue
  <2>6. IsDue(p, old, n) <=> size > MaxPayload
    BY <1>2, <2>2, <2>4 DEF IsDue
  <2>7. CASE size > MaxPayload
    <3> DEFINE x == n + 1
    <3>1. x \in DOMAIN new /\ x \notin DOMAIN old /\ x # n
      BY <1>1
    <3>2. ~IsDue(p, new, x)
      BY <1>3, <3>1
    <3> HIDE DEF x
    <3>3. \A u \in DOMAIN new \ {x} :
            u > before => (IsDue(p, new, u) <=> u \in DOMAIN old /\ IsDue(p, old, u))
      BY <1>3, <2>1, <2>5, <2>6, <2>7 DEF x
    <3>4. Cardinality(DueOf(p, new, before)) =
            Cardinality(DueOf(p, old, before)) + (IF x > before /\ IsDue(p, new, x) THEN 1 ELSE 0)
      BY <1>1, <1>2, <2>1, <3>1, <3>3, DueGrows
    <3> QED
      BY <2>3, <2>7, <3>2, <3>4 DEF n
  <2>8. CASE size <= MaxPayload
    <3>1. ~(n \in DOMAIN old /\ IsDue(p, old, n))
      BY <2>3, <2>6, <2>8
    <3>2. Cardinality(DueOf(p, new, before)) =
            Cardinality(DueOf(p, old, before)) + (IF n > before /\ IsDue(p, new, n) THEN 1 ELSE 0)
      BY <1>1, <1>2, <1>3, <2>1, <3>1, DueGrows
    <3> QED
      BY <1>1, <1>2, <2>5, <2>8, <3>2 DEF n
  <2> QED
    BY <2>3, <2>7, <2>8
<1> QED
  BY <1>4, <1>5

\* A unit that grows was not due.
LEMMA GrownIsDue ==
  ASSUME NEW p \in PsiPids \cup PesPids, NEW old, NEW new, Ordered(p, old), Ordered(p, new),
         old # <<>>, NEW k \in Nat \ {0}, GrownBy(old, new, k), NEW before \in 0..Len(old)
  PROVE  /\ Cardinality(DueOf(p, new, before)) =
              Cardinality(DueOf(p, old, before)) +
                (IF before < Len(new) /\ IsDue(p, new, Len(new)) THEN 1 ELSE 0)
         /\ old[Len(old)].sent < UnitSize(p, old[Len(old)].head)
<1> DEFINE n == Len(new)
           size == UnitSize(p, old[n].head)
<1>1. /\ old \in Seq(UnitRecord) /\ new \in Seq(UnitRecord) /\ Len(old) = n /\ n \in Nat \ {0}
      /\ DOMAIN old = 1..n /\ DOMAIN new = 1..n /\ new # <<>>
      /\ \A u \in 1..(n - 1) : new[u] = old[u]
      /\ new[n].head = old[n].head /\ new[n].sent = old[n].sent + k
  BY DEF Ordered, GrownBy
<1>2. /\ old[n].head \in HeadsOf(p) /\ old[n].sent \in 1..size
      /\ new[n].sent \in 1..UnitSize(p, new[n].head)
  BY <1>1, LastOfOrdered
<1>3. size \in Nat
  BY <1>2, FedSizes
<1>4. old[n].sent < size
  BY <1>1, <1>2, <1>3
<1>5. ~IsDue(p, old, n)
  BY <1>3, <1>4, <1>2 DEF IsDue
<1> HIDE DEF n, size
<1>6. ASSUME NEW u \in DOMAIN new \ {n}
      PROVE  IsDue(p, new, u) <=> u \in DOMAIN old /\ IsDue(p, old, u)
  <2>1. u \in DOMAIN old /\ new[u] = old[u] /\ Len(new) = Len(old)
    BY <1>1, <1>6 DEF n
  <2> QED
    BY <2>1 DEF IsDue
<1>7. /\ before \in Nat /\ n \in DOMAIN new /\ DOMAIN old \subseteq DOMAIN new
      /\ old \in Seq(UnitRecord) /\ new \in Seq(UnitRecord)
  BY <1>1
<1>8. Cardinality(DueOf(p, new, before)) =
        Cardinality(DueOf(p, old, before)) + (IF n > before /\ IsDue(p, new, n) THEN 1 ELSE 0)
  <2>1. ~(n \in DOMAIN old /\ IsDue(p, old, n))
    BY <1>5
  <2>2. \A u \in DOMAIN new \ {n} :
          u > before => (IsDue(p, new, u) <=> u \in DOMAIN old /\ IsDue(p, old, u))
    BY <1>6
  <2> QED
    BY <1>7, <2>1, <2>2, DueGrows
<1> QED
  BY <1>1, <1>4, <1>7, <1>8 DEF n, size

-----------------------------------------------------------------------------
(* What the collectors make of a packet *)

\* What a packet brings, with the bytes and the unit named.
LEMMA WhatIsBrought ==
  ASSUME NEW p \in PsiPids \cup PesPids, NEW seen, Ordered(p, seen), Ordered(p, units[p]),
         Brings(p, seen)
  PROVE  LET c == CurrentUnit(p)
             unit == units[p][c]
             size == UnitSize(p, unit.head)
         IN  /\ units[p] # <<>> /\ c \in Nat \ {0} /\ c \in Nat /\ c \in DOMAIN units[p]
             /\ unit.head \in HeadsOf(p) /\ unit.sent \in 1..size /\ unit.sent \in Nat
             /\ size \in Nat \ {0}
             /\ current.payload_unit_start_indicator =>
                  /\ c = Len(seen) + 1 /\ Begun(seen, units[p]) /\ current.head = unit.head
                  /\ FirstBytes(p, current) = Cells(p, c, 1, unit.sent)
             /\ ~current.payload_unit_start_indicator =>
                  /\ c = Len(seen) /\ seen # <<>> /\ seen[c].head = unit.head
                  /\ seen[c].sent \in 1..size
                  /\ GrownBy(seen, units[p], Len(MoreBytes(current)))
                  /\ MoreBytes(current) = Cells(p, c, seen[c].sent + 1, unit.sent)
                  /\ unit.sent = seen[c].sent + Len(MoreBytes(current))
<1> DEFINE c == CurrentUnit(p)
           unit == units[p][c]
           size == UnitSize(p, unit.head)
<1>1. units[p] # <<>> /\ (current.payload_unit_start_indicator => c = Len(seen) + 1)
      /\ (~current.payload_unit_start_indicator => c = Len(seen))
  BY DEF Brings, Begun, GrownBy, CurrentUnit, Ordered
<1>2. /\ c \in Nat \ {0} /\ c \in Nat /\ c \in DOMAIN units[p]
      /\ unit.head \in HeadsOf(p) /\ unit.sent \in 1..size
  BY <1>1, LastOfOrdered DEF CurrentUnit
<1>3. size \in Nat \ {0}
  BY <1>2, FedSizes
<1>4. unit.sent \in Nat
  BY <1>2, <1>3
<1>5. ASSUME ~current.payload_unit_start_indicator
      PROVE  /\ seen # <<>> /\ seen[c].head = unit.head /\ seen[c].sent \in 1..size
             /\ unit.sent = seen[c].sent + Len(MoreBytes(current))
  <2>1. seen # <<>> /\ GrownBy(seen, units[p], Len(MoreBytes(current))) /\ c = Len(seen)
    BY <1>1, <1>5 DEF Brings
  <2>2. seen[c].head = unit.head /\ unit.sent = seen[c].sent + Len(MoreBytes(current))
    BY <2>1 DEF GrownBy
  <2>3. seen[c].sent \in 1..UnitSize(p, seen[c].head)
    BY <2>1, LastOfOrdered
  <2> QED
    BY <2>1, <2>2, <2>3
<1> QED
  BY <1>1, <1>2, <1>3, <1>4, <1>5 DEF Brings

\* A section that is all there can be parsed for certain.
LEMMA WholeIsHeld ==
  ASSUME NEW p \in Pids, NEW u \in DOMAIN units[p], NEW size \in Nat, u \in Nat,
         size = UnitSize(p, units[p][u].head)
  PROVE  HoldsSection(p, Cells(p, u, 1, size))
<1> DEFINE raw == Cells(p, u, 1, size)
<1>1. raw \in Seq(Cell) /\ Len(raw) = size
  BY CellsFromOne
<1> HIDE DEF raw
<1>2. SubSeq(raw, 1, Len(raw)) = raw
  BY <1>1
<1>3. size <= Len(raw) /\ SubSeq(raw, 1, size) = raw
  BY <1>1, <1>2
<1> QED
  BY <1>3 DEF HoldsSection, raw

\* The table of the unit the packet is of, and whether it is called back for.
TableCollected(p, seen) ==
  LET c == CurrentUnit(p)
      due == missed[p] < c /\ IsDue(p, units[p], c)
  IN  /\ missed[p] \in 0..c /\ psiOut' # Throws
      /\ IF missed[p] = c THEN mTableId'[p] = PSI_TABLE_ID_PAT
         ELSE HasTable(p, c, units[p][c])'
      /\ (CallsBack(p, psiOut') <=> due)
      /\ due => HoldsSection(p, mSectionBuffer'[p])
      /\ Cardinality(DueOf(p, units[p], missed[p])) =
           Cardinality(DueOf(p, seen, missed[p])) + (IF due THEN 1 ELSE 0)

\* What collectTable calls back for once the buffer has the cells sent of a section.
LEMMA HeldTableIsCalled ==
  ASSUME NEW p \in PsiPids \ {0}, units' = units, NEW c \in DOMAIN units[p], c \in Nat,
         NEW unit, unit = units[p][c],
         unit.head \in HeadsOf(p), unit.sent \in 1..UnitSize(p, unit.head),
         HasTable(p, c, unit)', psiOut' = CollectedId(p)
  PROVE  /\ psiOut' # Throws /\ (CallsBack(p, psiOut') <=> IsDue(p, units[p], c))
         /\ IsDue(p, units[p], c) => HoldsSection(p, mSectionBuffer'[p])
<1> DEFINE size == UnitSize(p, unit.head)
           id == unit.head.table_id
<1>1. size \in Nat /\ p \in Pids
  BY FedSizes, PidAssumption
<1>2. /\ mSectionBuffer'[p] = Cells(p, c, 1, unit.sent) /\ mReadSectionLength'[p] = unit.sent
      /\ mSectionLength'[p] = size /\ mTableId'[p] = id
  BY DEF HasTable, UnitSize
<1>3. id \in TableIds
  BY DemuxHeadsAssumption DEF HeadsOf
<1>4. unit.sent \in Nat /\ unit.sent <= size
  BY <1>1
<1>5. psiOut' = IF size > unit.sent THEN PSI_TABLE_ID_INCOMPLETE ELSE id
  BY <1>2 DEF CollectedId, StillShort
<1>6. IsDue(p, units[p], c) <=> (unit.sent = size /\ CallsBack(p, id))
  BY DEF IsDue
<1> HIDE DEF size, id
<1>7. CASE unit.sent < size
  <2>1. psiOut' = PSI_TABLE_ID_INCOMPLETE /\ unit.sent # size
    BY <1>1, <1>4, <1>5, <1>7
  <2> QED
    BY <1>6, <2>1 DEF CallsBack, PSI_TABLE_ID_INCOMPLETE, PSI_TABLE_ID_PMT, PSI_TABLE_ID_PAT,
                      Throws
<1>8. CASE unit.sent = size
  <2>1. psiOut' = id
    BY <1>1, <1>4, <1>5, <1>8
  <2>2. psiOut' # Throws
    BY <1>3, <2>1 DEF TableIds, Throws, PSI_TABLE_ID_PMT, PSI_TABLE_ID_PAT, OtherTable
  <2>3. HoldsSection(p, Cells(p, c, 1, size))
    BY <1>1, WholeIsHeld DEF size
  <2>4. (CallsBack(p, psiOut') <=> IsDue(p, units[p], c))
    BY <1>6, <1>8, <2>1
  <2> QED
    BY <1>2, <1>8, <2>2, <2>3, <2>4
<1> QED
  BY <1>1, <1>4, <1>7, <1>8

\* A packet of a section of p goes to collectTable.
LEMMA CollectsTables ==
  ASSUME StartsInv, NEW p \in PsiPids, p \notin split \cup {0}, Carried(p, current),
         Info.pid = p, collectTable(current, Info, mOrigin), UNCHANGED <<units, missed>>,
         DOMAIN mSectionLength = Pids, DOMAIN mReadSectionLength = Pids,
         NEW seen, Ordered(p, seen), Ordered(p, units[p]), Brings(p, seen), Answered(p, seen)
  PROVE  TableCollected(p, seen)
<1>0. PICK c, unit : c = CurrentUnit(p) /\ unit = units[p][c]
  OBVIOUS
<1> DEFINE size == UnitSize(p, unit.head)
           first == FirstBytes(p, current)
           rest == MoreBytes(current)
           start == current.payload_unit_start_indicator
           before == missed[p]
<1>1. /\ Info.isPayloadStart = start /\ start \in BOOLEAN
      /\ rest = BytesFrom(current, Info.payloadStartOffset) /\ first = TableBytes(current, Info)
  BY InfoOfCarried DEF Info
<1>2. /\ c \in Nat \ {0} /\ c \in Nat /\ c \in DOMAIN units[p]
      /\ unit.head \in HeadsOf(p) /\ unit.sent \in 1..size /\ unit.sent \in Nat
      /\ size \in Nat \ {0}
      /\ start => /\ c = Len(seen) + 1 /\ Begun(seen, units[p]) /\ current.head = unit.head
                  /\ first = Cells(p, c, 1, unit.sent)
      /\ ~start => /\ c = Len(seen) /\ seen # <<>> /\ seen[c].head = unit.head
                   /\ seen[c].sent \in 1..size
                   /\ GrownBy(seen, units[p], Len(rest))
                   /\ rest = Cells(p, c, seen[c].sent + 1, unit.sent)
                   /\ unit.sent = seen[c].sent + Len(rest)
  BY <1>0, WhatIsBrought
<1>3. /\ p \in Pids /\ DOMAIN mSectionBuffer = Pids /\ DOMAIN mTableId = Pids
      /\ DOMAIN mSectionLength = Pids /\ DOMAIN mReadSectionLength = Pids
  BY PidAssumption DEF StartsInv, CollectorsInv
<1>4. /\ before \in 0..Len(seen) /\ Len(seen) \in Nat
      /\ before = Len(seen) => mTableId[p] = PSI_TABLE_ID_PAT
      /\ before # Len(seen) => HasTable(p, Len(seen), seen[Len(seen)])
      /\ missed' = missed
  BY DEF Answered, Untouched, Holds, Ordered
<1>5. start => first \in Seq(Cell) /\ Len(first) >= SectionHeaderSize
  BY DEF Carried, StartCarried
<1>6. ~start => rest \in Seq(Cell) /\ rest # <<>>
  BY DEF Carried, MoreCarried
<1>7. c = Len(units[p])
  BY <1>0 DEF CurrentUnit
<1> HIDE DEF size, first, rest, start, before
<1>11. p \in PsiPids \ {0}
  OBVIOUS
<1>8. CASE StartTable(current, Info)
  <2>1. /\ start /\ mSectionBuffer' = [mSectionBuffer EXCEPT ![p] = first]
        /\ mReadSectionLength' = [mReadSectionLength EXCEPT ![p] = CountBytes(0, first)]
        /\ mSectionLength' = [mSectionLength EXCEPT ![p] = WholeSection(current.head)]
        /\ mTableId' = [mTableId EXCEPT ![p] = NewTableId(@, current.head)]
        /\ psiOut' = CollectedId(p)
    BY <1>1, <1>8 DEF StartTable
  <2>2. CountBytes(0, first) = unit.sent
    <3>1. Len(Cells(p, c, 1, unit.sent)) = unit.sent
      <4>1. p \in Pids /\ c \in Nat /\ unit.sent \in Nat
        BY <1>2, <1>3
      <4> QED
        BY <4>1, CellsFromOne
    <3> QED
      BY <1>2, <2>1, <3>1 DEF CountBytes
  <2>3. WholeSection(current.head) = size
    BY <1>2, <2>1 DEF WholeSection, UnitSize, size
  <2>4. HasTable(p, c, unit)'
    <3>1. /\ mSectionBuffer'[p] = first /\ mReadSectionLength'[p] = unit.sent
          /\ mSectionLength'[p] = size /\ mTableId'[p] = current.head.table_id
      BY <1>3, <2>1, <2>2, <2>3 DEF NewTableId
    <3> QED
      BY <1>2, <2>1, <3>1 DEF HasTable, UnitSize, size
  <2>5. psiOut' # Throws /\ (CallsBack(p, psiOut') <=> IsDue(p, units[p], c))
        /\ (IsDue(p, units[p], c) => HoldsSection(p, mSectionBuffer'[p]))
    BY <1>0, <1>2, <1>11, <2>1, <2>4, HeldTableIsCalled DEF size
  <2>6. before \in 0..c /\ before < c /\ before # c
    BY <1>2, <1>4, <2>1
  <2>7. Cardinality(DueOf(p, units[p], before)) =
          Cardinality(DueOf(p, seen, before)) + (IF IsDue(p, units[p], c) THEN 1 ELSE 0)
    BY <1>2, <1>4, <1>7, <2>1, BegunTableIsDue
  <2> QED
    BY <1>0, <2>4, <2>5, <2>6, <2>7 DEF TableCollected, before, CurrentUnit
<1>9. ~SplitHeader(current, Info)
  <2>1. ASSUME start PROVE ~(Len(first) < SectionHeaderSize)
    <3>1. Len(first) \in Nat /\ SectionHeaderSize \in Nat /\ Len(first) >= SectionHeaderSize
      BY <1>5, <2>1, SectionAssumption
    <3> QED
      BY <3>1
  <2> QED
    BY <1>1, <2>1 DEF SplitHeader
<1>10. CASE AppendTable(current, Info)
  <2> DEFINE m == seen[c].sent
  <2>1. /\ ~start /\ mSectionBuffer' = [mSectionBuffer EXCEPT ![p] = @ \o rest]
        /\ mReadSectionLength' = [mReadSectionLength EXCEPT ![p] = CountBytes(@, rest)]
        /\ mSectionLength' = mSectionLength /\ mTableId' = mTableId
        /\ psiOut' = CollectedId(p)
    BY <1>1, <1>10 DEF AppendTable
  <2>2. /\ c = Len(seen) /\ seen # <<>> /\ m \in Nat /\ m + Len(rest) = unit.sent
        /\ Len(rest) \in Nat \ {0} /\ GrownBy(seen, units[p], Len(rest))
    BY <1>2, <1>6, <2>1
  <2>3. before \in 0..c
    BY <1>4, <2>2
  <2>4. Cardinality(DueOf(p, units[p], before)) =
          Cardinality(DueOf(p, seen, before))
            + (IF before < c /\ IsDue(p, units[p], c) THEN 1 ELSE 0)
    <3> DEFINE k == Len(rest)
    <3>1. /\ p \in PsiPids \cup PesPids /\ seen # <<>> /\ k \in Nat \ {0}
          /\ GrownBy(seen, units[p], k) /\ before \in 0..Len(seen)
      BY <1>4, <2>2
    <3> HIDE DEF k
    <3>2. Cardinality(DueOf(p, units[p], before)) =
            Cardinality(DueOf(p, seen, before))
              + (IF before < Len(units[p]) /\ IsDue(p, units[p], Len(units[p])) THEN 1 ELSE 0)
      BY <3>1, GrownIsDue
    <3> QED
      BY <1>7, <3>2
  <2>5. CASE before = c
    <3>1. mTableId'[p] = PSI_TABLE_ID_PAT
      BY <1>4, <2>1, <2>2, <2>5
    <3>2. psiOut' \in {PSI_TABLE_ID_PAT, PSI_TABLE_ID_INCOMPLETE}
      BY <2>1, <3>1 DEF CollectedId
    <3>3. psiOut' # Throws /\ ~CallsBack(p, psiOut')
      BY <3>2 DEF CallsBack, Throws, PSI_TABLE_ID_PAT, PSI_TABLE_ID_PMT, PSI_TABLE_ID_INCOMPLETE
    <3>4. ~(before < c)
      BY <1>2, <2>5
    <3> QED
      BY <1>0, <2>3, <2>4, <2>5, <3>1, <3>3, <3>4 DEF TableCollected, before, CurrentUnit
  <2>6. CASE before # c
    <3>1. HasTable(p, c, seen[c])
      BY <1>4, <2>2, <2>6
    <3>2. /\ mSectionBuffer[p] = Cells(p, c, 1, m) /\ mReadSectionLength[p] = m
          /\ mSectionLength[p] = size /\ mTableId[p] = unit.head.table_id
      BY <1>2, <2>1, <3>1 DEF HasTable, size
    <3>3. mSectionBuffer'[p] = Cells(p, c, 1, unit.sent)
      <4>1. rest = Cells(p, c, m + 1, m + Len(rest))
        BY <1>2, <2>1, <2>2
      <4>2. Cells(p, c, 1, m) \o Cells(p, c, m + 1, m + Len(rest)) = Cells(p, c, 1, m + Len(rest))
        <5> DEFINE k == Len(rest)
        <5>1. p \in Pids /\ c \in Nat /\ m \in Nat /\ k \in Nat
          BY <1>2, <1>3, <2>2
        <5> HIDE DEF m, k
        <5>2. Cells(p, c, 1, m) \o Cells(p, c, m + 1, m + k) = Cells(p, c, 1, m + k)
          BY <5>1, CellsJoin
        <5> QED
          BY <5>2 DEF k
      <4>3. mSectionBuffer'[p] = mSectionBuffer[p] \o rest
        BY <1>3, <2>1
      <4> QED
        BY <2>2, <3>2, <4>1, <4>2, <4>3, Zenon
    <3>4. mReadSectionLength'[p] = unit.sent
      BY <1>3, <2>1, <2>2, <3>2 DEF CountBytes
    <3>5. HasTable(p, c, unit)'
      BY <2>1, <3>2, <3>3, <3>4 DEF HasTable, UnitSize, size
    <3>6. psiOut' # Throws /\ (CallsBack(p, psiOut') <=> IsDue(p, units[p], c))
          /\ (IsDue(p, units[p], c) => HoldsSection(p, mSectionBuffer'[p]))
      BY <1>0, <1>2, <1>11, <2>1, <3>5, HeldTableIsCalled DEF size
    <3>7. before < c
      BY <1>2, <2>3, <2>6
    <3> QED
      BY <1>0, <2>3, <2>4, <2>6, <3>5, <3>6, <3>7 DEF TableCollected, before, CurrentUnit
  <2> QED
    BY <2>5, <2>6
<1> QED
  BY <1>8, <1>9, <1>10 DEF collectTable

\* The PES packet the packet is of, and whether one is called back for.
PesCollected(p, seen) ==
  LET c == CurrentUnit(p)
  IN  /\ missed[p] \in 0..c
      /\ IF missed[p] = c THEN mPesPacket'[p] = NoPes ELSE HasPes(p, units[p][c])'
      /\ Cardinality(DueOf(p, units[p], missed[p])) =
           Cardinality(DueOf(p, seen, missed[p])) + (IF pesOut' # NoPes THEN 1 ELSE 0)

\* A PES packet that starts gives back the one before, if that is still there.
LEMMA StartsCollectPes ==
  ASSUME StartsInv, NEW p \in PesPids, Carried(p, current),
         Info.pid = p, StartPes(current, Info), UNCHANGED <<units, missed>>,
         NEW seen, Ordered(p, seen), Ordered(p, units[p]), Brings(p, seen), Answered(p, seen)
  PROVE  PesCollected(p, seen)
<1>0. PICK c, unit : c = CurrentUnit(p) /\ unit = units[p][c]
  OBVIOUS
<1> DEFINE size == UnitSize(p, unit.head)
           first == FirstBytes(p, current)
           old == mPesPacket[p]
           before == missed[p]
           n == Len(seen)
           pes == parsePesPacket(current.head, first)
<1>1. p \in Pids /\ p \notin PsiPids /\ DOMAIN mPesPacket = Pids
  BY PidAssumption DEF StartsInv, CollectorsInv
<1>2. /\ current.payload_unit_start_indicator
      /\ pesOut' = IF old.mPesBuffer # <<>> /\ ~Incomplete(old) THEN old ELSE NoPes
      /\ mPesPacket' = [mPesPacket EXCEPT ![p] = pes]
  BY <1>1, InfoOfCarried DEF Info, StartPes
<1>3. /\ c \in Nat \ {0} /\ c \in Nat /\ unit.head \in HeadsOf(p) /\ unit.sent \in 1..size
      /\ unit.sent \in Nat /\ size \in Nat \ {0} /\ c = n + 1 /\ Begun(seen, units[p])
      /\ current.head = unit.head /\ first = Cells(p, c, 1, unit.sent)
  BY <1>0, <1>2, WhatIsBrought
<1>4. unit.sent <= MaxPayload /\ MaxPayload \in Nat
  BY <1>0, <1>2, <1>3, FedSizes DEF Brings
<1>5. first \in Seq(Cell) /\ Len(first) = unit.sent
  <2>1. p \in Pids /\ c \in Nat /\ unit.sent \in Nat
    BY <1>1, <1>3
  <2>2. Cells(p, c, 1, unit.sent) \in Seq(Cell) /\ Len(Cells(p, c, 1, unit.sent)) = unit.sent
    BY <2>1, CellsFromOne
  <2> QED
    BY <1>3, <2>2
<1>6. c = Len(units[p])
  BY <1>0 DEF CurrentUnit
<1>7. /\ before \in 0..n /\ n \in Nat /\ missed' = missed
      /\ before = n => old = NoPes
      /\ before # n => HasPes(p, seen[n])
  BY <1>1 DEF Answered, Untouched, Holds, Ordered
<1> HIDE DEF size, first, old, before, n
<1>8. /\ {"mPesBuffer", "PES_packet_length"} \subseteq DOMAIN pes
      /\ pes.PES_packet_length = unit.head.PES_packet_length /\ Len(pes.mPesBuffer) = unit.sent
  BY <1>3, <1>5 DEF parsePesPacket
<1> HIDE DEF pes
<1>9. HasPes(p, unit)'
  <2>1. mPesPacket'[p] = pes
    BY <1>1, <1>2
  <2>2. ~(unit.sent = size /\ size > MaxPayload)
    BY <1>3, <1>4
  <2> QED
    BY <1>8, <2>1, <2>2 DEF HasPes, UnitSize, size
<1>10. before \in 0..c /\ before # c
  BY <1>3, <1>7
<1> DEFINE prev == UnitSize(p, seen[n].head)
<1>11. Cardinality(DueOf(p, units[p], before)) =
         Cardinality(DueOf(p, seen, before)) +
           (IF before < n /\ prev <= MaxPayload THEN 1 ELSE 0)
  BY <1>0, <1>3, <1>4, <1>6, <1>7, BegunPesIsDue DEF n
<1>12. (pesOut' # NoPes) <=> (before < n /\ prev <= MaxPayload)
  <2>1. CASE before = n
    <3>1. old = NoPes
      BY <1>7, <2>1
    <3>2. pesOut' = NoPes
      BY <1>2, <3>1
    <3> QED
      BY <1>7, <2>1, <3>2
  <2>2. CASE before # n
    <3>1. before < n /\ n \in DOMAIN seen /\ n # 0 /\ seen # <<>>
      BY <1>7, <2>2 DEF n, Ordered
    <3>2. seen[n].head \in HeadsOf(p)
      BY <3>1, LastOfOrdered DEF n
    <3>3. prev \in Nat \ {0} /\ prev = seen[n].head.PES_packet_length + PesHeaderSize
          /\ seen[n].head.PES_packet_length \in Nat /\ PesHeaderSize \in Nat \ {0}
      BY <1>1, <3>2, FedSizes, DemuxHeadsAssumption, PesHeaderAssumption DEF UnitSize, HeadsOf
    <3>4. seen[n].sent = prev
      <4>1. units[p][n] = seen[n] /\ n \in DOMAIN units[p] /\ n < Len(units[p])
        BY <1>3, <1>6, <1>7, <3>1 DEF Begun, n, Ordered
      <4> QED
        BY <4>1 DEF Ordered
    <3> HIDE DEF prev
    <3>5. HasPes(p, seen[n])
      BY <1>7, <2>2
    <3>6. CASE prev > MaxPayload
      <4>1. old = NoPes
        BY <3>4, <3>5, <3>6 DEF HasPes, prev, old
      <4>2. pesOut' = NoPes
        BY <1>2, <4>1
      <4> QED
        BY <1>4, <3>3, <3>6, <4>2
    <3>7. CASE prev <= MaxPayload
      <4>1. ~(prev > MaxPayload)
        BY <1>4, <3>3, <3>7
      <4>2. /\ old.PES_packet_length = seen[n].head.PES_packet_length
            /\ Len(old.mPesBuffer) = prev
        BY <3>4, <3>5, <4>1 DEF HasPes, prev, old
      <4>3. old.mPesBuffer # <<>> /\ ~Incomplete(old)
        BY <3>3, <4>2 DEF Incomplete
      <4>4. pesOut' = old /\ old # NoPes
        BY <1>2, <4>3 DEF NoPes
      <4> QED
        BY <3>1, <3>7, <4>4
    <3> QED
      BY <1>4, <3>3, <3>6, <3>7
  <2> QED
    BY <2>1, <2>2
<1> HIDE DEF prev
<1>13. Cardinality(DueOf(p, units[p], before)) =
         Cardinality(DueOf(p, seen, before)) + (IF pesOut' # NoPes THEN 1 ELSE 0)
  BY <1>11, <1>12
<1> QED
  BY <1>0, <1>9, <1>10, <1>13 DEF PesCollected, before, CurrentUnit

\* More of a PES packet gives it back when it is complete.
LEMMA MoreCollectsPes ==
  ASSUME StartsInv, NEW p \in PesPids, Carried(p, current),
         Info.pid = p, IgnorePes(Info) \/ AppendPes(current, Info), UNCHANGED <<units, missed>>,
         NEW seen, Ordered(p, seen), Ordered(p, units[p]), Brings(p, seen), Answered(p, seen)
  PROVE  PesCollected(p, seen)
<1>0. PICK c, unit : c = CurrentUnit(p) /\ unit = units[p][c]
  OBVIOUS
<1> DEFINE size == UnitSize(p, unit.head)
           rest == MoreBytes(current)
           old == mPesPacket[p]
           before == missed[p]
           m == seen[c].sent
           pes == Extended(old, rest)
<1>1. p \in Pids /\ p \notin PsiPids /\ DOMAIN mPesPacket = Pids
  BY PidAssumption DEF StartsInv, CollectorsInv
<1>2. /\ ~current.payload_unit_start_indicator
      /\ \/ old = NoPes /\ pesOut' = NoPes /\ mPesPacket' = mPesPacket
         \/ /\ old # NoPes /\ pesOut' = IF Complete(pes) THEN pes ELSE NoPes
            /\ mPesPacket' = [mPesPacket EXCEPT ![p] = Remaining(pes)]
  BY <1>1, InfoOfCarried DEF Info, IgnorePes, AppendPes, Started
<1>3. /\ c \in Nat \ {0} /\ unit.head \in HeadsOf(p) /\ unit.sent \in 1..size
      /\ unit.sent \in Nat /\ size \in Nat \ {0} /\ c = Len(seen) /\ seen # <<>>
      /\ seen[c].head = unit.head /\ m \in 1..size /\ m \in Nat
      /\ GrownBy(seen, units[p], Len(rest)) /\ unit.sent = m + Len(rest)
  BY <1>0, <1>2, WhatIsBrought
<1>4. rest \in Seq(Cell) /\ Len(rest) \in Nat \ {0}
  BY <1>2 DEF Carried, MoreCarried
<1>5. c = Len(units[p])
  BY <1>0 DEF CurrentUnit
<1>6. /\ before \in 0..c /\ missed' = missed
      /\ before = c => old = NoPes
      /\ before # c => HasPes(p, seen[c])
  BY <1>1, <1>3 DEF Answered, Untouched, Holds, Ordered
<1>7. m >= MaxPayload \/ m = size
  BY <1>3, LastOfOrdered
<1>8. /\ MaxPayload \in Nat /\ PesHeaderSize \in Nat \ {0}
      /\ size = unit.head.PES_packet_length + PesHeaderSize
  BY <1>1, <1>3, FedSizes, PesHeaderAssumption DEF UnitSize
<1> HIDE DEF size, rest, before, m
<1>9. /\ Cardinality(DueOf(p, units[p], before)) =
           Cardinality(DueOf(p, seen, before)) +
             (IF before < c /\ IsDue(p, units[p], c) THEN 1 ELSE 0)
      /\ m < size
  <2> DEFINE k == Len(rest)
  <2>1. /\ p \in PsiPids \cup PesPids /\ k \in Nat \ {0}
        /\ GrownBy(seen, units[p], k) /\ before \in 0..Len(seen)
    BY <1>3, <1>4, <1>6
  <2> HIDE DEF k
  <2>2. /\ Cardinality(DueOf(p, units[p], before)) =
             Cardinality(DueOf(p, seen, before)) +
               (IF before < Len(units[p]) /\ IsDue(p, units[p], Len(units[p])) THEN 1 ELSE 0)
        /\ seen[Len(seen)].sent < UnitSize(p, seen[Len(seen)].head)
    BY <1>3, <2>1, GrownIsDue
  <2> QED
    BY <1>3, <1>5, <2>2 DEF m, size
<1>10. CASE before = c
  <2>1. old = NoPes /\ ~(before < c)
    BY <1>3, <1>6, <1>10
  <2>2. pesOut' = NoPes /\ mPesPacket' = mPesPacket
    BY <1>2, <2>1
  <2> QED
    BY <1>0, <1>6, <1>9, <1>10, <2>1, <2>2 DEF PesCollected, before, CurrentUnit
<1>11. CASE before # c
  <2>1. HasPes(p, seen[c]) /\ before < c
    BY <1>3, <1>6, <1>11
  <2>2. /\ {"mPesBuffer", "PES_packet_length"} \subseteq DOMAIN old
        /\ old.PES_packet_length = unit.head.PES_packet_length /\ Len(old.mPesBuffer) = m
        /\ old.mPesBuffer \in Seq(Cell) /\ size > MaxPayload
    <3>1. ~(m = size) /\ size > MaxPayload
      BY <1>3, <1>7, <1>8, <1>9
    <3> QED
      BY <1>3, <2>1, <3>1 DEF HasPes, m, size, StartsInv, CollectorsInv, PesInv
  <2>3. old # NoPes
    BY <1>3, <2>2 DEF NoPes
  <2>4. /\ {"mPesBuffer", "PES_packet_length"} \subseteq DOMAIN pes
        /\ pes.PES_packet_length = unit.head.PES_packet_length
        /\ pes.mPesBuffer = old.mPesBuffer \o rest
    BY <2>2 DEF Extended
  <2>5. Len(pes.mPesBuffer) = unit.sent /\ pes # NoPes
    <3>1. Len(old.mPesBuffer \o rest) = unit.sent
      <4> DEFINE bytes == old.mPesBuffer
      <4>1. bytes \in Seq(Cell) /\ Len(bytes) = m
        BY <2>2
      <4> HIDE DEF bytes
      <4>2. Len(bytes \o rest) = m + Len(rest)
        BY <1>4, <4>1
      <4> QED
        BY <1>3, <4>2 DEF bytes
    <3> QED
      BY <1>3, <2>4, <3>1 DEF NoPes
  <2>6. Complete(pes) <=> unit.sent = size
    BY <1>8, <2>4, <2>5 DEF Complete
  <2>7. IsDue(p, units[p], c) <=> unit.sent = size
    BY <1>0, <1>1, <2>2 DEF IsDue, size
  <2>8. pesOut' = (IF Complete(pes) THEN pes ELSE NoPes)
        /\ mPesPacket'[p] = Remaining(pes)
    BY <1>1, <1>2, <2>3
  <2> HIDE DEF pes, old
  <2>9. (pesOut' # NoPes) <=> IsDue(p, units[p], c)
    BY <2>5, <2>6, <2>7, <2>8
  <2>10. HasPes(p, unit)'
    <3>1. CASE unit.sent = size
      <4>1. mPesPacket'[p] = NoPes
        BY <2>6, <2>8, <3>1 DEF Remaining
      <4> QED
        BY <2>2, <3>1, <4>1 DEF HasPes, UnitSize, size
    <3>2. CASE unit.sent # size
      <4>1. mPesPacket'[p] = pes
        BY <2>6, <2>8, <3>2 DEF Remaining
      <4> QED
        BY <2>4, <2>5, <3>2, <4>1 DEF HasPes, UnitSize, size
    <3> QED
      BY <3>1, <3>2
  <2> QED
    BY <1>0, <1>6, <1>9, <1>11, <2>1, <2>9, <2>10 DEF PesCollected, before, CurrentUnit
<1> QED
  BY <1>10, <1>11

-----------------------------------------------------------------------------
(* The stream goes on: what a packet brings *)

\* One more unit after a list that is complete.
LEMMA OrderedBegins ==
  ASSUME NEW p \in PsiPids \cup PesPids, NEW list, Ordered(p, list),
         list # <<>> => list[Len(list)].sent = UnitSize(p, list[Len(list)].head),
         NEW head \in HeadsOf(p), NEW n \in 1..UnitSize(p, head),
         p \in PesPids => n >= MaxPayload \/ n = UnitSize(p, head)
  PROVE  LET new == Append(list, [head |-> head, sent |-> n])
         IN  /\ Ordered(p, new) /\ Begun(list, new) /\ Len(new) = Len(list) + 1
             /\ new[Len(list) + 1] = [head |-> head, sent |-> n]
<1> DEFINE unit == [head |-> head, sent |-> n]
           new == Append(list, unit)
           c == Len(list)
<1>1. list \in Seq(UnitRecord) /\ c \in Nat /\ DOMAIN list = 1..c
  BY DEF Ordered
<1>2. unit \in UnitRecord /\ unit.head = head /\ unit.sent = n
  BY FedSizes DEF UnitRecord
<1> HIDE DEF unit
<1>3. /\ new \in Seq(UnitRecord) /\ Len(new) = c + 1 /\ DOMAIN new = 1..(c + 1)
      /\ new[c + 1] = unit /\ \A u \in 1..c : new[u] = list[u]
  BY <1>1, <1>2
<1> HIDE DEF new
<1>4. ASSUME NEW u \in DOMAIN new
      PROVE  LET size == UnitSize(p, new[u].head)
             IN  /\ new[u].head \in HeadsOf(p) /\ new[u].sent \in 1..size
                 /\ u < Len(new) => new[u].sent = size
                 /\ p \in PesPids => new[u].sent >= MaxPayload \/ new[u].sent = size
  <2>1. CASE u = c + 1
    BY <1>1, <1>2, <1>3, <2>1
  <2>2. CASE u # c + 1
    <3>1. u \in DOMAIN list /\ new[u] = list[u] /\ (u = c \/ u < Len(list))
      BY <1>1, <1>3, <1>4, <2>2
    <3>2. list # <<>>
      BY <1>1, <3>1
    <3>3. u = c => list[u].sent = UnitSize(p, list[u].head)
      BY <3>2
    <3> QED
      BY <3>1, <3>3 DEF Ordered
  <2> QED
    BY <2>1, <2>2
<1> QED
  BY <1>1, <1>3, <1>4 DEF Ordered, Begun, new, unit

\* A start brings the collector of p a unit more.
LEMMA StartBrings ==
  ASSUME StartsInv, NEW p \in PsiPids \cup PesPids, FeedStart(p), Ordered(p, units[p]),
         NEW list, list = units[p]
  PROVE  Ordered(p, units[p])' /\ Ahead(p)' /\ Brings(p, list)'
<1>1. PICK head \in HeadsOf(p) :
      \E n \in {SizeOrLess(MaxPayload - Len(Lead(p)), UnitSize(p, head))}
                \cup IF p \in PsiPids THEN {1} ELSE {} :
        /\ Feed(p, PayloadPacket(p, TRUE, Plain, head,
                                 Lead(p) \o Cells(p, CurrentUnit(p) + 1, 1, n)))
        /\ BeginUnit(p, 0, head, n)
  BY DEF FeedStart
<1>2. PICK n \in {SizeOrLess(MaxPayload - Len(Lead(p)), UnitSize(p, head))}
                 \cup IF p \in PsiPids THEN {1} ELSE {} :
        /\ Feed(p, PayloadPacket(p, TRUE, Plain, head,
                                 Lead(p) \o Cells(p, CurrentUnit(p) + 1, 1, n)))
        /\ BeginUnit(p, 0, head, n)
  BY <1>1
<1> DEFINE size == UnitSize(p, head)
<1>3. /\ size \in Nat \ {0} /\ n \in 1..size /\ n <= MaxPayload /\ MaxPayload \in Nat
      /\ p \in Pids
      /\ p \in PsiPids => n < MaxPayload
      /\ p \in PesPids => n = MaxPayload \/ n = size
      /\ p \in PesPids => p \notin PsiPids
  <2> DEFINE lead == Len(Lead(p))
             room == MaxPayload - lead
  <2>1. /\ size \in Nat \ {0} /\ MaxPayload \in Nat /\ MaxPayload > 1
        /\ p \in PesPids => p \notin PsiPids
        /\ p \in PsiPids => lead = 1
        /\ p \notin PsiPids => lead = 0
    BY FedSizes
  <2> HIDE DEF lead
  <2>2. /\ room \in Nat \ {0} /\ room <= MaxPayload
        /\ p \in PsiPids => room < MaxPayload
        /\ p \notin PsiPids => room = MaxPayload
    <3>1. CASE p \in PsiPids
      BY <2>1, <3>1
    <3>2. CASE p \notin PsiPids
      BY <2>1, <3>2
    <3> QED
      BY <3>1, <3>2
  <2>3. n = (IF room <= size THEN room ELSE size) \/ (p \in PsiPids /\ n = 1)
    BY DEF SizeOrLess, lead
  <2> HIDE DEF size, room
  <2>4. p \in Pids
    BY PidAssumption
  <2> QED
    BY <2>1, <2>2, <2>3, <2>4
<1> DEFINE c == Len(list)
           u == c + 1
           unit == [head |-> head, sent |-> n]
<1>4. list \in Seq(UnitRecord) /\ c \in Nat /\ u \in Nat /\ c = CurrentUnit(p)
  BY DEF Ordered, CurrentUnit
<1>5. list # <<>> => list[c].sent = UnitSize(p, list[c].head)
  <2> SUFFICES ASSUME list # <<>> PROVE list[c].sent = UnitSize(p, list[c].head)
    OBVIOUS
  <2>1. Left(p) = 0 /\ Last(list) = list[c]
    BY DEF FeedStart, Last
  <2>2. Left(p) = UnitSize(p, list[c].head) - list[c].sent
    BY <2>1 DEF Left
  <2>3. list[c].head \in HeadsOf(p) /\ list[c].sent \in 1..UnitSize(p, list[c].head)
    BY LastOfOrdered
  <2>4. UnitSize(p, list[c].head) \in Nat
    BY <2>3, FedSizes
  <2> QED
    BY <2>1, <2>2, <2>3, <2>4
<1>6. units'[p] = Append(list, unit)
  <2>1. units' = [units EXCEPT ![p] = Append(MoreSent(units[p], 0), unit)]
    BY <1>2 DEF BeginUnit
  <2>2. MoreSent(units[p], 0) = units[p]
    BY DEF MoreSent
  <2>3. DOMAIN units = Pids
    BY DEF StartsInv, StreamInv, SenderInv
  <2> QED
    BY <1>3, <2>1, <2>2, <2>3
<1>7. /\ Ordered(p, Append(list, unit)) /\ Begun(list, Append(list, unit))
      /\ Len(Append(list, unit)) = u /\ Append(list, unit)[u] = unit
  <2>1. p \in PesPids => n >= MaxPayload \/ n = size
    BY <1>3
  <2> QED
    BY <1>3, <1>5, <2>1, OrderedBegins
<1>8. CurrentUnit(p)' = u /\ units'[p][u].head = head /\ units'[p][u].sent = n
  BY <1>6, <1>7 DEF CurrentUnit
<1> HIDE DEF c, unit, size
<1>9. stage' = "ts" /\ \E error \in ErrorIndicators :
        current' = Marked(p, TRUE, head, Lead(p) \o Cells(p, u, 1, n), error)
  BY <1>2, <1>4, FeedIsInFlight
<1>10. PICK error \in ErrorIndicators :
        current' = Marked(p, TRUE, head, Lead(p) \o Cells(p, u, 1, n), error)
  BY <1>9
<1> HIDE DEF u
<1> DEFINE start == TRUE
           payload == Lead(p) \o Cells(p, u, 1, n)
           pkt == Marked(p, start, head, payload, error)
<1>11. current' = pkt
  BY <1>10
<1>12. /\ pkt.pid = p /\ pkt.payload_unit_start_indicator = start /\ pkt.head = head
       /\ FirstBytes(p, pkt) = Cells(p, u, 1, n)
  <2>1. pkt.head = head
    BY DEF Marked, PayloadPacket, TsPacket
  <2>2. CASE p \in PsiPids
    <3>1. n \in Nat \ {0} /\ n < MaxPayload
      BY <1>3, <2>2
    <3> HIDE DEF pkt, payload, start
    <3>2. StartsSection(Marked(p, TRUE, head, Lead(p) \o Cells(p, u, 1, n), error), p, u, n)
      BY <1>4, <2>2, <3>1, SectionStartIsFound
    <3> QED
      BY <2>1, <3>2 DEF StartsSection, pkt, payload, start
  <2>3. CASE p \notin PsiPids
    <3> DEFINE run == Cells(p, u, 1, n)
    <3>1. run \in Seq(Cell) /\ Len(run) = n
      <4>1. n \in Nat
        BY <1>3
      <4> QED
        BY <1>3, <1>4, <4>1, CellsFromOne
    <3> HIDE DEF run
    <3>2. payload = run
      <4>1. payload = <<>> \o run
        BY <2>3, FedSizes DEF run
      <4> QED
        BY <3>1, <4>1
    <3> HIDE DEF payload
    <3>3. payload \in Seq(Cell) /\ Len(payload) \in 1..MaxPayload /\ start \in BOOLEAN
      BY <1>3, <3>1, <3>2
    <3> HIDE DEF start
    <3>4. /\ pkt.pid = p /\ pkt.payload_unit_start_indicator = start
          /\ MoreBytes(pkt) = payload
      BY <1>3, <3>3, PayloadIsTaken
    <3>5. FirstBytes(p, pkt) = MoreBytes(pkt)
      BY <2>3 DEF FirstBytes, MoreBytes
    <3> HIDE DEF pkt
    <3> QED
      BY <2>1, <3>2, <3>4, <3>5 DEF run
  <2> QED
    BY <2>2, <2>3
<1> HIDE DEF pkt
<1>13. Ahead(p)'
  BY <1>9, <1>11, <1>12 DEF Ahead
<1>14. Brings(p, list)'
  <2>1. /\ current'.payload_unit_start_indicator /\ current'.head = head
        /\ FirstBytes(p, current') = Cells(p, u, 1, n)
    BY <1>11, <1>12 DEF start
  <2>2. Begun(list, units'[p])
    BY <1>6, <1>7
  <2> QED
    BY <1>3, <1>8, <2>1, <2>2 DEF Brings, FirstBytes
<1>15. Ordered(p, units[p])'
  BY <1>6, <1>7 DEF Ordered
<1> QED
  BY <1>13, <1>14, <1>15

\* More of the last unit of a list.
LEMMA OrderedGrows ==
  ASSUME NEW p \in PsiPids \cup PesPids, NEW list, Ordered(p, list), list # <<>>, NEW n \in Nat \ {0},
         list[Len(list)].sent + n <= UnitSize(p, list[Len(list)].head)
  PROVE  LET c == Len(list)
             new == [list EXCEPT ![c].sent = @ + n]
         IN  /\ Ordered(p, new) /\ GrownBy(list, new, n) /\ Len(new) = c
             /\ new[c].head = list[c].head /\ new[c].sent = list[c].sent + n
<1> DEFINE c == Len(list)
           size == UnitSize(p, list[c].head)
           unit == [list[c] EXCEPT !.sent = @ + n]
           new == [list EXCEPT ![c] = unit]
<1>1. /\ list \in Seq(UnitRecord) /\ c \in Nat \ {0} /\ DOMAIN list = 1..c /\ c \in DOMAIN list
      /\ list[c].head \in HeadsOf(p) /\ list[c].sent \in 1..size
      /\ p \in PesPids => list[c].sent >= MaxPayload \/ list[c].sent = size
  BY LastOfOrdered
<1>2. size \in Nat /\ MaxPayload \in Nat
  BY <1>1, FedSizes
<1>3. list[c] \in UnitRecord
  BY <1>1
<1>4. unit \in UnitRecord /\ unit.head = list[c].head /\ unit.sent = list[c].sent + n
  BY <1>3 DEF UnitRecord
<1> HIDE DEF unit, size
<1>5. /\ new \in Seq(UnitRecord) /\ Len(new) = c /\ DOMAIN new = 1..c /\ new[c] = unit
      /\ \A u \in 1..(c - 1) : new[u] = list[u]
  BY <1>1, <1>4
<1> HIDE DEF new
<1>6. /\ unit.sent \in 1..size /\ (p \in PesPids => unit.sent >= MaxPayload)
  <2> DEFINE sent == list[c].sent
  <2>1. sent \in 1..size /\ sent + n <= size /\ unit.sent = sent + n
    BY <1>1, <1>4 DEF size
  <2>2. p \in PesPids => sent >= MaxPayload \/ sent = size
    BY <1>1
  <2> HIDE DEF sent
  <2> QED
    BY <1>2, <2>1, <2>2
<1>7. ASSUME NEW u \in DOMAIN new
      PROVE  LET whole == UnitSize(p, new[u].head)
             IN  /\ new[u].head \in HeadsOf(p) /\ new[u].sent \in 1..whole
                 /\ u < Len(new) => new[u].sent = whole
                 /\ p \in PesPids => new[u].sent >= MaxPayload \/ new[u].sent = whole
  <2>1. CASE u = c
    BY <1>1, <1>4, <1>5, <1>6, <2>1 DEF size
  <2>2. CASE u # c
    <3>1. u \in DOMAIN list /\ new[u] = list[u] /\ u < Len(list) /\ u < Len(new)
      BY <1>1, <1>5, <1>7, <2>2
    <3> QED
      BY <3>1 DEF Ordered
  <2> QED
    BY <2>1, <2>2
<1>8. new = [list EXCEPT ![c].sent = @ + n]
  BY DEF new, unit
<1>9. Ordered(p, new)
  BY <1>5, <1>7 DEF Ordered
<1>10. GrownBy(list, new, n)
  BY <1>4, <1>5 DEF GrownBy
<1> QED
  BY <1>4, <1>5, <1>8, <1>9, <1>10, Zenon

\* Any other packet brings more of the unit that started last.
LEMMA MoreBrings ==
  ASSUME StartsInv, NEW p \in PsiPids \cup PesPids, FeedMore(p), Ordered(p, units[p]),
         NEW list, list = units[p]
  PROVE  Ordered(p, units[p])' /\ Ahead(p)' /\ Brings(p, list)'
<1>1. PICK c, n : c = Len(list) /\ n = SizeOrLess(MaxPayload, Left(p))
  OBVIOUS
<1>2. PICK head, sent : head = list[c].head /\ sent = list[c].sent
  OBVIOUS
<1> DEFINE size == UnitSize(p, head)
           payload == Cells(p, c, sent + 1, sent + n)
<1>3. list # <<>> /\ Left(p) > 0 /\ p \in Pids
  BY PidAssumption DEF FeedMore, Left
<1>4. /\ c \in Nat \ {0} /\ c \in Nat /\ c \in DOMAIN list /\ list \in Seq(UnitRecord)
      /\ head \in HeadsOf(p) /\ sent \in 1..size
  BY <1>1, <1>2, <1>3, LastOfOrdered
<1>5. /\ CurrentUnit(p) = c /\ Last(units[p]) = list[c] /\ Left(p) = size - sent
  BY <1>1, <1>2, <1>3 DEF CurrentUnit, Last, Left
<1>6. size \in Nat /\ MaxPayload \in Nat /\ MaxPayload > 1
  BY <1>4, FedSizes
<1>7. n \in Nat \ {0} /\ n <= MaxPayload /\ sent + n <= size /\ sent \in Nat
  <2>1. size - sent > 0 /\ sent \in Nat
    BY <1>3, <1>4, <1>5, <1>6
  <2>2. n = IF MaxPayload <= size - sent THEN MaxPayload ELSE size - sent
    BY <1>1, <1>5 DEF SizeOrLess
  <2> HIDE DEF size
  <2> QED
    BY <1>6, <2>1, <2>2
<1>8. /\ Feed(p, PayloadPacket(p, FALSE, Plain, head, payload)) /\ ResumeUnit(p, n)
  BY <1>1, <1>2, <1>5 DEF FeedMore
<1> DEFINE new == [list EXCEPT ![c].sent = @ + n]
<1>9. units'[p] = new
  <2>1. units' = [units EXCEPT ![p] = MoreSent(units[p], n)]
    BY <1>8 DEF ResumeUnit
  <2>2. MoreSent(units[p], n) = new
    BY <1>1, <1>7 DEF MoreSent
  <2>3. DOMAIN units = Pids
    BY DEF StartsInv, StreamInv, SenderInv
  <2> HIDE DEF new
  <2> QED
    BY <1>3, <2>1, <2>2, <2>3
<1>10. /\ Ordered(p, new) /\ GrownBy(list, new, n) /\ Len(new) = c
       /\ new[c].head = head /\ new[c].sent = sent + n
  <2>1. list[Len(list)].sent + n <= UnitSize(p, list[Len(list)].head)
    BY <1>1, <1>2, <1>7
  <2> DEFINE k == Len(list)
             grown == [list EXCEPT ![k].sent = @ + n]
  <2>2. /\ Ordered(p, grown) /\ GrownBy(list, grown, n) /\ Len(grown) = k
        /\ grown[k].head = list[k].head /\ grown[k].sent = list[k].sent + n
    <3>1. Ordered(p, list) /\ list # <<>> /\ n \in Nat \ {0}
      BY <1>1, <1>3, <1>7
    <3> QED
      BY <3>1, <2>1, OrderedGrows
  <2>3. k = c /\ grown = new
    BY <1>1
  <2> HIDE DEF k, grown, new
  <2> QED
    BY <1>2, <2>2, <2>3
<1> HIDE DEF new, size
<1>11. stage' = "ts" /\ \E error \in ErrorIndicators :
         current' = Marked(p, FALSE, head, payload, error)
  BY <1>8, FeedIsInFlight
<1>12. PICK error \in ErrorIndicators : current' = Marked(p, FALSE, head, payload, error)
  BY <1>11
<1>13. payload \in Seq(Cell) /\ Len(payload) = n
  <2> DEFINE first == sent + 1
             last == sent + n
  <2>1. first \in Nat /\ last \in Nat /\ last - first + 1 = n /\ n \in Nat
    BY <1>7
  <2> HIDE DEF first, last
  <2>2. IsRun(Cells(p, c, first, last), p, c, first, n)
    BY <1>3, <1>4, <2>1, CellsRun
  <2> QED
    BY <2>2 DEF IsRun, first, last
<1> HIDE DEF payload
<1> DEFINE start == FALSE
           pkt == Marked(p, start, head, payload, error)
<1>14. current' = pkt
  BY <1>12
<1>15. pkt.pid = p /\ pkt.payload_unit_start_indicator = start /\ MoreBytes(pkt) = payload
  <2>1. start \in BOOLEAN /\ Len(payload) \in 1..MaxPayload
    BY <1>6, <1>7, <1>13
  <2> HIDE DEF start
  <2> QED
    BY <1>3, <1>13, <2>1, PayloadIsTaken
<1> HIDE DEF pkt
<1>16. Ahead(p)'
  BY <1>11, <1>14, <1>15 DEF Ahead
<1>17. Brings(p, list)'
  <2>1. ~current'.payload_unit_start_indicator /\ MoreBytes(current') = payload
    BY <1>14, <1>15 DEF start
  <2>2. CurrentUnit(p)' = c /\ GrownBy(list, units'[p], Len(payload))
    BY <1>9, <1>10, <1>13 DEF CurrentUnit
  <2>3. payload = Cells(p, c, list[c].sent + 1, units'[p][c].sent)
    BY <1>2, <1>9, <1>10 DEF payload
  <2> QED
    BY <1>3, <2>1, <2>2, <2>3 DEF Brings, MoreBytes
<1>18. Ordered(p, units[p])'
  BY <1>9, <1>10 DEF Ordered
<1> QED
  BY <1>16, <1>17, <1>18

-----------------------------------------------------------------------------
(* Steps that tell a collector nothing *)

CollectorKept(p) ==
  /\ mSectionBuffer'[p] = mSectionBuffer[p] /\ mReadSectionLength'[p] = mReadSectionLength[p]
  /\ mSectionLength'[p] = mSectionLength[p] /\ mTableId'[p] = mTableId[p]
  /\ mPesPacket'[p] = mPesPacket[p]

CallsKept(p) ==
  /\ called'[p] = called[p] /\ missed'[p] = missed[p]
  /\ Listening(p)' <=> Listening(p)
  /\ p \in split => p \in split'

FlightKeptFor(p) ==
  /\ units'[p] = units[p]
  /\ Ahead(p)' <=> Ahead(p)
  /\ Ahead(p) => current' = current

LEMMA SameIsUntouched ==
  ASSUME NEW p, CollectorKept(p)
  PROVE  /\ Untouched(p)' <=> Untouched(p)
         /\ \A u : \A unit : Holds(p, u, unit) => Holds(p, u, unit)'
BY DEF CollectorKept, Untouched, Holds, HasTable, HasPes, UnitSize

\* What was given of the units seen stays right.
LEMMA SameIsAnswered ==
  ASSUME NEW p, CollectorKept(p), CallsKept(p), NEW seen, Answered(p, seen)
  PROVE  Answered(p, seen)'
BY SameIsUntouched DEF Answered, CallsKept, DueOf, IsDue, UnitSize

LEMMA SameKeepsJoin ==
  ASSUME NEW p, JoinInv(p), CollectorKept(p), CallsKept(p), FlightKeptFor(p)
  PROVE  JoinInv(p)'
<1>1. PICK seen : Joins(p, seen)
  BY DEF JoinInv
<1>2. Seen(p, seen)'
  BY <1>1 DEF Joins, Seen, FlightKeptFor, Brings, CurrentUnit, FirstBytes, MoreBytes, Ordered
<1>3. Joins(p, seen)'
  BY <1>1, <1>2, SameIsAnswered DEF Joins, CallsKept
<1>4. ~Listening(p)' => called'[p] = 0 /\ Untouched(p)'
  BY SameIsUntouched DEF JoinInv, CallsKept
<1>5. Ordered(p, units[p])'
  BY DEF JoinInv, FlightKeptFor, Ordered
<1> QED
  BY <1>3, <1>4, <1>5 DEF JoinInv

\* A packet on its way to the collector of p.
LEMMA FedKeepsJoin ==
  ASSUME NEW p, JoinInv(p), CollectorKept(p), CallsKept(p), ~Ahead(p),
         NEW list, list = units[p], Ordered(p, units[p])', Ahead(p)', Brings(p, list)'
  PROVE  JoinInv(p)'
<1>1. PICK seen : Joins(p, seen)
  BY DEF JoinInv
<1>2. seen = list /\ Ordered(p, list)
  BY <1>1 DEF Joins, Seen
<1>3. Seen(p, list)'
  BY <1>2 DEF Seen, Ordered
<1>4. Joins(p, list)'
  BY <1>1, <1>2, <1>3, SameIsAnswered DEF Joins, CallsKept
<1>5. ~Listening(p)' => called'[p] = 0 /\ Untouched(p)'
  BY SameIsUntouched DEF JoinInv, CallsKept
<1> QED
  BY <1>4, <1>5 DEF JoinInv

\* A packet that has been to the collector of p, or was not for it.
LEMMA PassedKeepsJoin ==
  ASSUME NEW p, Ordered(p, units[p]), units'[p] = units[p], ~Ahead(p)',
         ~Listening(p)' => called'[p] = 0 /\ Untouched(p)',
         NEW list, list = units[p],
         Listening(p)' /\ p \notin split' \cup {0} => Answered(p, list)'
  PROVE  JoinInv(p)'
<1>1. Ordered(p, list)' /\ list = units'[p]
  BY DEF Ordered
<1>2. Joins(p, list)'
  BY <1>1 DEF Joins, Seen
<1> QED
  BY <1>1, <1>2 DEF JoinInv

\* No packet of another PID is in flight.
LEMMA OthersAreNotAhead ==
  ASSUME NEW p \in PsiPids \cup PesPids, NEW q \in PsiPids \cup PesPids, q # p,
         current.pid = p, current' = current \/ stage' \in {"idle", "end"}
  PROVE  ~Ahead(q) /\ ~Ahead(q)'
BY DEF Ahead

-----------------------------------------------------------------------------
(* The collectors *)

\* collectTable and collectPes write to the maps under their PID only.
LEMMA OnlyItsTable ==
  ASSUME StartsInv, NEW p \in PsiPids, Info.pid = p, collectTable(current, Info, mOrigin),
         DOMAIN mSectionLength = Pids, DOMAIN mReadSectionLength = Pids,
         mPesPacket' = mPesPacket
  PROVE  /\ DOMAIN mSectionLength' = Pids /\ DOMAIN mReadSectionLength' = Pids
         /\ \A q \in Pids \ {p} : CollectorKept(q)
<1>1. /\ DOMAIN mSectionBuffer = Pids /\ DOMAIN mTableId = Pids
  BY DEF StartsInv, CollectorsInv
<1>2. CASE StartTable(current, Info)
  BY <1>1, <1>2 DEF StartTable, CollectorKept
<1>3. CASE SplitHeader(current, Info)
  BY <1>1, <1>3 DEF SplitHeader, CollectorKept
<1>4. CASE AppendTable(current, Info)
  BY <1>1, <1>4 DEF AppendTable, CollectorKept
<1> QED
  BY <1>2, <1>3, <1>4 DEF collectTable

LEMMA OnlyItsPes ==
  ASSUME StartsInv, NEW p \in PesPids, Info.pid = p, collectPes(current, Info, mOrigin),
         UNCHANGED sections
  PROVE  \A q \in Pids \ {p} : CollectorKept(q)
<1>1. DOMAIN mPesPacket = Pids
  BY DEF StartsInv, CollectorsInv
<1>2. ASSUME NEW q \in Pids \ {p} PROVE mPesPacket'[q] = mPesPacket[q]
  BY <1>1, <1>2 DEF collectPes, StartPes, IgnorePes, AppendPes
<1> QED
  BY <1>2 DEF CollectorKept, sections

\* What a stage leaves of all PIDs but that of its packet.
OthersKept(p) ==
  \A q \in (PsiPids \cup PesPids) \ {p} :
    CollectorKept(q) /\ called'[q] = called[q]

LEMMA OthersJoin ==
  ASSUME CallsInv, NEW p \in PsiPids \cup PesPids, current.pid = p,
         UNCHANGED <<units, missed, split, registrations>>,
         OthersKept(p), current' = current \/ stage' \in {"idle", "end"},
         NEW q \in PsiPids \cup PesPids, q # p
  PROVE  JoinInv(q)'
<1>1. CallsKept(q) /\ CollectorKept(q)
  BY DEF OthersKept, CallsKept, Listening, registrations
<1>2. FlightKeptFor(q)
  BY OthersAreNotAhead DEF FlightKeptFor
<1> QED
  BY <1>1, <1>2, SameKeepsJoin DEF CallsInv

-----------------------------------------------------------------------------
(* The application keeps the count *)

\* The first registration leaves out exactly what the collector has been shown.
LEMMA StartedAreSeen ==
  ASSUME NEW p \in PsiPids \cup PesPids, Ordered(p, units[p]), NEW seen, Seen(p, seen),
         stage # "ts", NEW kind, kind = "psi" <=> p \in PsiPids
  PROVE  StartedUnits(kind, p) = Len(seen)
<1>1. Ordered(p, seen)
  BY DEF Seen
<1>2. CASE ~Ahead(p)
  <2>1. seen = units[p]
    BY <1>2 DEF Seen
  <2> QED
    BY <1>2, <2>1 DEF StartedUnits, Ahead, CurrentUnit
<1>3. CASE Ahead(p)
  <2>1. Brings(p, seen)
    BY <1>3 DEF Seen
  <2>2. /\ current.payload_unit_start_indicator => CurrentUnit(p) = Len(seen) + 1
        /\ ~current.payload_unit_start_indicator => CurrentUnit(p) = Len(seen)
    BY <1>1, <2>1, WhatIsBrought
  <2>3. Len(seen) \in Nat
    BY <1>1 DEF Ordered
  <2> QED
    BY <1>3, <2>2, <2>3 DEF StartedUnits, Ahead
<1> QED
  BY <1>2, <1>3

\* A PID that gets its first PSI or PES callback.
LEMMA FirstRegistrationJoins ==
  ASSUME NEW p \in PsiPids \cup PesPids, JoinInv(p), ~Listening(p), Listening(p)',
         CollectorKept(p), FlightKeptFor(p), called'[p] = called[p], stage # "ts",
         NEW kind, kind = "psi" <=> p \in PsiPids, missed'[p] = StartedUnits(kind, p)
  PROVE  JoinInv(p)'
<1>1. PICK seen : Joins(p, seen)
  BY DEF JoinInv
<1>2. Ordered(p, units[p]) /\ Seen(p, seen) /\ seen \in Seq(UnitRecord)
  BY <1>1 DEF JoinInv, Joins, Seen, Ordered
<1>3. missed'[p] = Len(seen)
  BY <1>2, StartedAreSeen
<1>4. Seen(p, seen)'
  BY <1>2 DEF Seen, FlightKeptFor, Brings, CurrentUnit, FirstBytes, MoreBytes, Ordered
<1>5. called'[p] = 0 /\ Untouched(p)'
  BY SameIsUntouched DEF JoinInv
<1>6. Cardinality(DueOf(p, seen, Len(seen))) = 0
  BY <1>2, NoneDue
<1>7. Answered(p, seen)'
  <2>1. Len(seen) \in 0..Len(seen)
    BY <1>2
  <2>2. Cardinality(DueOf(p, seen, missed[p]))' = 0
    BY <1>3, <1>6 DEF DueOf, IsDue, UnitSize
  <2> QED
    BY <1>3, <1>5, <2>1, <2>2 DEF Answered
<1>8. Ordered(p, units[p])'
  BY DEF JoinInv, FlightKeptFor, Ordered
<1> QED
  BY <1>4, <1>7, <1>8 DEF JoinInv, Joins

LEMMA RegisterKeepsCalls ==
  ASSUME StartsInv, CallsInv, Register
  PROVE  CallsInv'
<1>1. PICK r \in Registrations :
        /\ CASE r.kind = "ts"  -> addTsPid(r.pid, r.hdl)
             [] r.kind = "psi" -> addPsiPid(r.pid, r.hdl)
             [] r.kind = "pes" -> addPesPid(r.pid, r.hdl)
        /\ missed' = IF r.kind = "ts" \/ r.pid \in mPsiCallbackMap \cup mPesCallbackMap THEN missed
                     ELSE [missed EXCEPT ![r.pid] = StartedUnits(r.kind, r.pid)]
  BY DEF Register
<1>2. r.kind \in {"ts", "psi", "pes"} /\ r.pid \in Pids
  BY RegistrationAssumption
<1>3. /\ UNCHANGED <<collectors, stage, current, callback, units, called, split>>
      /\ ApiCanBeCalled
  BY DEF Register, sender
<1>4. DOMAIN missed = Pids
  BY DEF CallsInv
<1>5. ASSUME NEW p PROVE CollectorKept(p) /\ FlightKeptFor(p)
  BY <1>3 DEF CollectorKept, FlightKeptFor, collectors, sections, Ahead
<1>6. /\ r.kind = "ts" => \A p : Listening(p)' <=> Listening(p)
      /\ r.kind # "ts" => \A p : Listening(p)' <=> Listening(p) \/ p = r.pid
  <2>1. CASE r.kind = "ts"
    BY <1>1, <2>1 DEF addTsPid, Listening
  <2>2. CASE r.kind = "psi"
    BY <1>1, <2>2 DEF addPsiPid, Listening
  <2>3. CASE r.kind = "pes"
    BY <1>1, <2>3 DEF addPesPid, Listening
  <2> QED
    BY <1>2, <2>1, <2>2, <2>3
<1>7. stage # "ts"
  BY <1>3 DEF ApiCanBeCalled, CallsInv
<1>8. ASSUME NEW p \in PsiPids \cup PesPids, p # r.pid \/ r.kind = "ts" \/ Listening(p)
      PROVE  JoinInv(p)'
  <2>1. missed'[p] = missed[p]
    BY <1>1, <1>4, <1>8 DEF Listening
  <2>2. CallsKept(p)
    BY <1>3, <1>6, <1>8, <2>1 DEF CallsKept
  <2> QED
    BY <1>5, <2>2, SameKeepsJoin DEF CallsInv
<1>9. ASSUME NEW p \in PsiPids \cup PesPids, p = r.pid, r.kind # "ts", ~Listening(p)
      PROVE  JoinInv(p)'
  <2>1. Listening(p)' /\ stage # "ts" /\ called'[p] = called[p]
    BY <1>3, <1>6, <1>7, <1>9
  <2>2. missed'[p] = StartedUnits(r.kind, p)
    BY <1>1, <1>2, <1>4, <1>9 DEF Listening
  <2>3. r.kind = "psi" <=> p \in PsiPids
    BY <1>2, <1>9, CarriedAssumption, PidAssumption
  <2> QED
    BY <1>5, <1>9, <2>1, <2>2, <2>3, FirstRegistrationJoins DEF CallsInv
<1>10. DOMAIN missed' = Pids
  BY <1>1, <1>4
<1> QED
  BY <1>3, <1>8, <1>9, <1>10 DEF CallsInv, collectors, sections

-----------------------------------------------------------------------------
(* The stream keeps the count *)

\* A packet is fed between two calls of demux, and is on its way then.
LEMMA FeedKeepsCalls ==
  ASSUME StartsInv, CallsInv, NEW p \in PsiPids \cup PesPids, FeedStart(p) \/ FeedMore(p)
  PROVE  CallsInv'
<1>1. /\ stage = "idle" /\ stage' = "ts"
      /\ UNCHANGED <<registrations, collectors, callback, called, missed>>
      /\ split \subseteq split'
      /\ \A q \in Pids \ {p} : units'[q] = units[q]
      /\ current'.pid = p
  <2>1. CASE FeedStart(p)
    <3>1. PICK head \in HeadsOf(p) :
          \E n \in {SizeOrLess(MaxPayload - Len(Lead(p)), UnitSize(p, head))}
               \cup IF p \in PsiPids THEN {1} ELSE {} :
             /\ Feed(p, PayloadPacket(p, TRUE, Plain, head,
                                Lead(p) \o Cells(p, CurrentUnit(p) + 1, 1, n)))
             /\ BeginUnit(p, 0, head, n)
             /\ split' = IF p \in PsiPids /\ n < SectionHeaderSize THEN split \cup {p} ELSE split
      BY <2>1 DEF FeedStart
    <3>2. PICK n :
             /\ Feed(p, PayloadPacket(p, TRUE, Plain, head,
                                Lead(p) \o Cells(p, CurrentUnit(p) + 1, 1, n)))
             /\ BeginUnit(p, 0, head, n)
             /\ split' = IF p \in PsiPids /\ n < SectionHeaderSize THEN split \cup {p} ELSE split
      BY <3>1
    <3>3. /\ \E error \in ErrorIndicators :
               current' = Marked(p, TRUE, head, Lead(p) \o Cells(p, CurrentUnit(p) + 1, 1, n),
                                 error)
          /\ stage = "idle" /\ stage' = "ts"
          /\ UNCHANGED <<registrations, mOrigin, collectors, callback>>
      BY <3>2, FeedIsInFlight
    <3>4. current'.pid = p
      BY <3>3 DEF Marked, PayloadPacket, TsPacket
    <3>5. UNCHANGED <<called, missed>> /\ split \subseteq split'
      BY <3>2 DEF Feed
    <3>6. \A q \in Pids \ {p} : units'[q] = units[q]
      BY <3>2 DEF BeginUnit, StartsInv, StreamInv, SenderInv
    <3> QED
      BY <3>3, <3>4, <3>5, <3>6
  <2>2. CASE FeedMore(p)
    <3>1. PICK head, payload, n :
             Feed(p, PayloadPacket(p, FALSE, Plain, head, payload)) /\ ResumeUnit(p, n)
      BY <2>2 DEF FeedMore
    <3>3. /\ \E error \in ErrorIndicators : current' = Marked(p, FALSE, head, payload, error)
          /\ stage = "idle" /\ stage' = "ts"
          /\ UNCHANGED <<registrations, mOrigin, collectors, callback>>
      BY <3>1, FeedIsInFlight
    <3>4. current'.pid = p
      BY <3>3 DEF Marked, PayloadPacket, TsPacket
    <3>5. UNCHANGED <<called, missed>> /\ split' = split
      BY <2>2, <3>1 DEF Feed, FeedMore
    <3>6. \A q \in Pids \ {p} : units'[q] = units[q]
      BY <3>1 DEF ResumeUnit, StartsInv, StreamInv, SenderInv
    <3> QED
      BY <3>3, <3>4, <3>5, <3>6
  <2> QED
    BY <2>1, <2>2
<1>2. ASSUME NEW q PROVE CollectorKept(q) /\ CallsKept(q)
  BY <1>1 DEF CollectorKept, CallsKept, Listening, registrations, collectors, sections
<1>3. ASSUME NEW q \in PsiPids \cup PesPids, q # p PROVE JoinInv(q)'
  <2>1. FlightKeptFor(q)
    BY <1>1, <1>3, PidAssumption DEF FlightKeptFor, Ahead
  <2> QED
    BY <1>2, <2>1, SameKeepsJoin DEF CallsInv
<1>4. JoinInv(p)'
  <2>1. JoinInv(p) /\ Ordered(p, units[p]) /\ ~Ahead(p)
    BY <1>1 DEF CallsInv, JoinInv, Ahead
  <2>2. PICK list : list = units[p]
    OBVIOUS
  <2>3. Ordered(p, units[p])' /\ Ahead(p)' /\ Brings(p, list)'
    BY <2>1, <2>2, StartBrings, MoreBrings
  <2> QED
    BY <1>2, <2>1, <2>2, <2>3, FedKeepsJoin
<1> QED
  BY <1>1, <1>3, <1>4 DEF CallsInv, collectors, sections

\* A step that only returns from a callback, or moves what no collector looks at.
LEMMA IdleStepKeepsCalls ==
  ASSUME CallsInv, UNCHANGED <<registrations, collectors, called, missed, split, units>>,
         stage' \in {"idle", "ts"} => callback' = NoCallback,
         \A p \in PsiPids \cup PesPids : (Ahead(p)' <=> Ahead(p)) /\ (Ahead(p) => current' = current)
  PROVE  CallsInv'
<1>1. ASSUME NEW p \in PsiPids \cup PesPids PROVE JoinInv(p)'
  <2>1. CollectorKept(p) /\ CallsKept(p)
    BY DEF CollectorKept, CallsKept, Listening, registrations, collectors, sections
  <2>2. FlightKeptFor(p)
    BY DEF FlightKeptFor
  <2> QED
    BY <2>1, <2>2, SameKeepsJoin DEF CallsInv
<1> QED
  BY <1>1 DEF CallsInv, collectors, sections

-----------------------------------------------------------------------------
(* The calls of the stages *)

\* called counts the PSI and PES callbacks of each PID.
Counting ==
  called' = IF callback = NoCallback /\ callback'.kind \in {"psi", "pes"}
            THEN [called EXCEPT ![callback'.pid] = @ + 1] ELSE called

LEMMA CountedCall ==
  ASSUME Counting, NEW next, NEW kind \in {"psi", "pes"}, NEW raw, Call(next, kind, raw),
         callback = NoCallback, NEW p \in Pids, Pid = p, DOMAIN called = Pids
  PROVE  /\ called'[p] = called[p] + 1 /\ DOMAIN called' = Pids
         /\ \A q \in Pids \ {p} : called'[q] = called[q]
         /\ stage' = next /\ current' = current
BY DEF Counting, Call

LEMMA UncountedCall ==
  ASSUME Counting, NEW raw, NEW next, Call(next, "ts", raw)
  PROVE  called' = called
BY DEF Counting, Call

LEMMA NoCall ==
  ASSUME Counting, callback = NoCallback, callback' = callback
  PROVE  called' = called
BY DEF Counting, NoCallback

\* A section that was collected: the callback is called for it if it is due.
LEMMA CollectedTableJoins ==
  ASSUME NEW p \in PsiPids, NEW seen, Answered(p, seen), TableCollected(p, seen),
         UNCHANGED <<units, missed>>, NEW list, list = units[p],
         called'[p] = called[p] + (IF CallsBack(p, psiOut') THEN 1 ELSE 0)
  PROVE  Answered(p, list)'
<1>1. PICK c : c = CurrentUnit(p)
  OBVIOUS
<1>2. c = Len(list) /\ c = CurrentUnit(p)'
  BY <1>1 DEF CurrentUnit
<1>3. /\ missed'[p] \in 0..c
      /\ IF missed'[p] = c THEN Untouched(p)' ELSE Holds(p, c, list[c])'
  BY <1>1, <1>2 DEF TableCollected, Untouched, Holds
<1>4. called'[p] = Cardinality(DueOf(p, list, missed[p]))
  BY DEF TableCollected, Answered
<1>5. Cardinality(DueOf(p, list, missed[p])) = Cardinality(DueOf(p, list, missed[p]))'
  BY DEF DueOf, IsDue, UnitSize
<1> QED
  BY <1>2, <1>3, <1>4, <1>5 DEF Answered

LEMMA CollectedPesJoins ==
  ASSUME NEW p \in PesPids, NEW seen, Answered(p, seen), PesCollected(p, seen),
         UNCHANGED <<units, missed>>, NEW list, list = units[p],
         called'[p] = called[p] + (IF pesOut' # NoPes THEN 1 ELSE 0)
  PROVE  Answered(p, list)'
<1>1. PICK c : c = CurrentUnit(p)
  OBVIOUS
<1>2. c = Len(list) /\ c = CurrentUnit(p)'
  BY <1>1 DEF CurrentUnit
<1>3. p \notin PsiPids
  BY PidAssumption
<1>4. /\ missed'[p] \in 0..c
      /\ IF missed'[p] = c THEN Untouched(p)' ELSE Holds(p, c, list[c])'
  BY <1>1, <1>2, <1>3 DEF PesCollected, Untouched, Holds
<1>5. called'[p] = Cardinality(DueOf(p, list, missed[p]))
  BY DEF PesCollected, Answered
<1>6. Cardinality(DueOf(p, list, missed[p])) = Cardinality(DueOf(p, list, missed[p]))'
  BY DEF DueOf, IsDue, UnitSize
<1> QED
  BY <1>2, <1>4, <1>5, <1>6 DEF Answered

-----------------------------------------------------------------------------
(* The stages keep the count *)

LEMMA TsStageKeepsCalls ==
  ASSUME CallsInv, TsStage, Counting, UNCHANGED <<units, missed, split>>
  PROVE  CallsInv'
<1>1. /\ UNCHANGED <<registrations, collectors, called, current>>
      /\ stage = "ts" /\ stage' = "psi"
  BY UncountedCall, NoCall DEF TsStage, Call, Proceed
<1> QED
  BY <1>1, IdleStepKeepsCalls DEF Ahead

LEMMA LastStepsKeepCalls ==
  ASSUME CallsInv, EndStage \/ CallbackReturns, Counting, UNCHANGED <<units, missed, split>>
  PROVE  CallsInv'
<1>1. CASE EndStage
  <2>1. /\ UNCHANGED <<registrations, collectors, called>>
        /\ callback = NoCallback /\ callback' = NoCallback
        /\ stage = "end" /\ stage' = "idle"
    BY <1>1, NoCall DEF EndStage
  <2> QED
    BY <2>1, IdleStepKeepsCalls DEF Ahead
<1>2. CASE CallbackReturns
  <2>1. /\ UNCHANGED <<registrations, collectors, called, stage, current>>
        /\ callback' = NoCallback
    BY <1>2 DEF CallbackReturns, Counting
  <2> QED
    BY <2>1, IdleStepKeepsCalls DEF Ahead
<1> QED
  BY <1>1, <1>2

\* The PID of the packet that demux is at work on.
LEMMA PidInFlight ==
  ASSUME StartsInv, stage \in {"psi", "pes"}
  PROVE  \E p \in PsiPids \cup PesPids : Carried(p, current) /\ current.pid = p /\ Pid = p
                                          /\ Info.pid = p
<1>1. PICK p \in PsiPids \cup PesPids : Carried(p, current)
  BY DEF StartsInv, FlightInv
<1>2. current.pid = p /\ Info.pid = p
  BY <1>1, InfoOfCarried DEF Carried, Info
<1> QED
  BY <1>1, <1>2 DEF Pid

\* What the stages of PSI and of PES have in common: nothing happens to other PIDs.
LEMMA StageKeepsCalls ==
  ASSUME CallsInv, NEW p \in PsiPids \cup PesPids, current.pid = p,
         UNCHANGED <<units, missed, split, registrations>>,
         \A q \in Pids \ {p} : CollectorKept(q) /\ called'[q] = called[q],
         current' = current \/ stage' \in {"idle", "end"},
         stage' \notin {"idle", "ts"} \/ callback' = NoCallback,
         DOMAIN called' = Pids, DOMAIN mSectionLength' = Pids, DOMAIN mReadSectionLength' = Pids,
         JoinInv(p)'
  PROVE  CallsInv'
<1>1. OthersKept(p)
  BY PidAssumption DEF OthersKept
<1>2. \A q \in PsiPids \cup PesPids : JoinInv(q)'
  BY <1>1, OthersJoin
<1> QED
  BY <1>2 DEF CallsInv

\* A PID whose collector is not asked.
LEMMA PassedByKeepsCalls ==
  ASSUME CallsInv, StartsInv, Counting, stage \in {"psi", "pes"}, callback = NoCallback,
         UNCHANGED <<units, missed, split, registrations, collectors, current, callback>>,
         \/ stage = "psi" /\ stage' = "pes" /\ Pid \notin mPsiCallbackMap
         \/ stage = "pes" /\ stage' = "end" /\ Pid \notin mPesCallbackMap
  PROVE  CallsInv'
<1>1. PICK p \in PsiPids \cup PesPids : Carried(p, current) /\ current.pid = p /\ Pid = p
  BY PidInFlight
<1>2. called' = called
  BY NoCall
<1>3. ASSUME NEW q PROVE CollectorKept(q) /\ CallsKept(q)
  BY <1>2 DEF CollectorKept, CallsKept, Listening, registrations, collectors, sections
<1>4. JoinInv(p)'
  <2>1. CASE Ahead(p)' <=> Ahead(p)
    <3>1. FlightKeptFor(p)
      BY <2>1 DEF FlightKeptFor
    <3> QED
      BY <1>3, <3>1, SameKeepsJoin DEF CallsInv
  <2>2. CASE ~(Ahead(p)' <=> Ahead(p))
    <3>1. ~Ahead(p)' /\ ~Listening(p)
      BY <1>1, <2>2, PidAssumption DEF Ahead, Listening, StartsInv, RegisteredInv
    <3>2. ~Listening(p)' /\ called'[p] = 0 /\ Untouched(p)'
      BY <1>1, <1>2, <1>3, <3>1, SameIsUntouched DEF CallsInv, JoinInv, CallsKept
    <3>3. PICK list : list = units[p]
      OBVIOUS
    <3>4. Ordered(p, units[p])
      BY DEF CallsInv, JoinInv
    <3> QED
      BY <3>1, <3>2, <3>3, <3>4, PassedKeepsJoin
  <2> QED
    BY <2>1, <2>2
<1> QED
  BY <1>1, <1>2, <1>3, <1>4, StageKeepsCalls DEF CallsInv, collectors, sections

\* collectTable is asked.
LEMMA CollectTableKeepsCalls ==
  ASSUME StartsInv, CallsInv, stage = "psi", callback = NoCallback, Pid \in mPsiCallbackMap,
         CollectTable(HoldsSection(Pid, mSectionBuffer'[Pid])),
         Counting, UNCHANGED <<units, missed, split>>
  PROVE  CallsInv'
<1>1. PICK p \in PsiPids \cup PesPids :
        Carried(p, current) /\ current.pid = p /\ Pid = p /\ Info.pid = p
  BY PidInFlight
<1>2. p \in PsiPids /\ p \in Pids /\ Ahead(p) /\ Listening(p)
  BY <1>1, PidAssumption DEF StartsInv, RegisteredInv, Ahead, Listening
<1>3. /\ collectTable(current, Info, mOrigin) /\ mPesPacket' = mPesPacket
      /\ UNCHANGED registrations
      /\ \/ CallsBack(p, psiOut') /\ Call("pes", "psi", mSectionBuffer'[Pid])
         \/ /\ \/ psiOut' = Throws
               \/ CallsBack(p, psiOut') /\ ~HoldsSection(p, mSectionBuffer'[p])
            /\ Abort
         \/ psiOut' # Throws /\ ~CallsBack(p, psiOut') /\ Proceed("pes")
  BY <1>1 DEF CollectTable
<1>4. DOMAIN called = Pids /\ DOMAIN mSectionLength = Pids /\ DOMAIN mReadSectionLength = Pids
  BY DEF CallsInv
<1>5. /\ DOMAIN mSectionLength' = Pids /\ DOMAIN mReadSectionLength' = Pids
      /\ \A q \in Pids \ {p} : CollectorKept(q)
  BY <1>1, <1>2, <1>3, <1>4, OnlyItsTable
<1>6. /\ DOMAIN called' = Pids /\ \A q \in Pids \ {p} : called'[q] = called[q]
      /\ \/ stage' = "pes" /\ current' = current
         \/ stage' = "idle" /\ callback' = NoCallback
  <2>1. CASE Call("pes", "psi", mSectionBuffer'[Pid])
    BY <1>1, <1>2, <1>4, <2>1, CountedCall
  <2>2. CASE Abort \/ Proceed("pes")
    <3>1. callback' = callback
      BY <2>2 DEF Abort, Proceed
    <3>2. called' = called
      BY <3>1, NoCall
    <3> QED
      BY <1>4, <2>2, <3>1, <3>2 DEF Abort, Proceed
  <2> QED
    BY <1>3, <2>1, <2>2
<1>7. ~Ahead(p)' /\ Listening(p)'
  BY <1>2, <1>3, <1>6 DEF Ahead, Listening, registrations
<1>8. PICK list : list = units[p]
  OBVIOUS
<1>9. Ordered(p, units[p])
  BY DEF CallsInv, JoinInv
<1>10. ASSUME p \notin split \cup {0} PROVE Answered(p, list)'
  <2>1. PICK seen : Joins(p, seen)
    BY DEF CallsInv, JoinInv
  <2>2. Ordered(p, seen) /\ Brings(p, seen) /\ Answered(p, seen)
    BY <1>2, <1>10, <2>1 DEF Joins, Seen
  <2>3. TableCollected(p, seen)
    BY <1>1, <1>2, <1>3, <1>4, <1>9, <1>10, <2>2, CollectsTables
  <2>4. psiOut' # Throws /\ (CallsBack(p, psiOut') => HoldsSection(p, mSectionBuffer'[p]))
    BY <2>3 DEF TableCollected
  <2>5. called'[p] = called[p] + (IF CallsBack(p, psiOut') THEN 1 ELSE 0)
    <3>1. CASE CallsBack(p, psiOut')
      <4>1. Call("pes", "psi", mSectionBuffer'[Pid])
        BY <1>3, <2>4, <3>1
      <4> QED
        BY <1>1, <1>2, <1>4, <3>1, <4>1, CountedCall
    <3>2. CASE ~CallsBack(p, psiOut')
      <4>1. Proceed("pes")
        BY <1>3, <2>4, <3>2
      <4>2. called' = called
        BY <4>1, NoCall DEF Proceed
      <4>3. called[p] \in Nat
        <5>1. Cardinality(DueOf(p, seen, missed[p])) \in Nat
          BY <2>2, DueIsCounted DEF Ordered
        <5> QED
          BY <2>2, <5>1 DEF Answered
      <4> QED
        BY <3>2, <4>2, <4>3
    <3> QED
      BY <3>1, <3>2
  <2> QED
    BY <1>2, <1>8, <2>2, <2>3, <2>5, CollectedTableJoins
<1>11. JoinInv(p)'
  BY <1>7, <1>8, <1>9, <1>10, PassedKeepsJoin
<1> QED
  BY <1>1, <1>3, <1>5, <1>6, <1>11, StageKeepsCalls

\* collectPes is asked.
LEMMA CollectPesKeepsCalls ==
  ASSUME StartsInv, CallsInv, stage = "pes", callback = NoCallback, Pid \in mPesCallbackMap,
         CollectPes, Counting, UNCHANGED <<units, missed, split>>
  PROVE  CallsInv'
<1>1. PICK p \in PsiPids \cup PesPids :
        Carried(p, current) /\ current.pid = p /\ Pid = p /\ Info.pid = p
  BY PidInFlight
<1>2. p \in PesPids /\ p \in Pids /\ p \notin PsiPids /\ Ahead(p) /\ Listening(p)
  BY <1>1, PidAssumption DEF StartsInv, RegisteredInv, Ahead, Listening
<1>3. /\ collectPes(current, Info, mOrigin) /\ UNCHANGED sections
      /\ UNCHANGED registrations
      /\ IF pesOut' # NoPes THEN Call("end", "pes", pesOut'.mPesBuffer) ELSE Proceed("end")
  BY DEF CollectPes
<1>4. DOMAIN called = Pids
  BY DEF CallsInv
<1>5. \A q \in Pids \ {p} : CollectorKept(q)
  BY <1>1, <1>2, <1>3, OnlyItsPes
<1>6. /\ stage' = "end" /\ current' = current /\ DOMAIN called' = Pids
      /\ \A q \in Pids \ {p} : called'[q] = called[q]
      /\ IF pesOut' # NoPes THEN called'[p] = called[p] + 1 ELSE called'[p] = called[p]
  <2>1. CASE pesOut' # NoPes
    BY <1>1, <1>2, <1>3, <1>4, <2>1, CountedCall
  <2>2. CASE pesOut' = NoPes
    <3>1. Proceed("end")
      BY <1>3, <2>2
    <3>2. called' = called
      BY <3>1, NoCall DEF Proceed
    <3> QED
      BY <1>4, <2>2, <3>1, <3>2 DEF Proceed
  <2> QED
    BY <2>1, <2>2
<1>7. ~Ahead(p)' /\ Listening(p)'
  BY <1>2, <1>3, <1>6 DEF Ahead, Listening, registrations
<1>8. PICK list : list = units[p]
  OBVIOUS
<1>9. Ordered(p, units[p])
  BY DEF CallsInv, JoinInv
<1>10. ASSUME p \notin split \cup {0} PROVE Answered(p, list)'
  <2>1. PICK seen : Joins(p, seen)
    BY DEF CallsInv, JoinInv
  <2>2. Ordered(p, seen) /\ Brings(p, seen) /\ Answered(p, seen)
    BY <1>2, <1>10, <2>1 DEF Joins, Seen
  <2>3. PesCollected(p, seen)
    BY <1>1, <1>2, <1>3, <1>9, <2>2, StartsCollectPes, MoreCollectsPes DEF collectPes
  <2>4. called[p] \in Nat
    <3>1. Cardinality(DueOf(p, seen, missed[p])) \in Nat
      BY <2>2, DueIsCounted DEF Ordered
    <3> QED
      BY <2>2, <3>1 DEF Answered
  <2>5. called'[p] = called[p] + (IF pesOut' # NoPes THEN 1 ELSE 0)
    BY <1>6, <2>4
  <2> QED
    BY <1>2, <1>8, <2>2, <2>3, <2>5, CollectedPesJoins
<1>11. JoinInv(p)'
  BY <1>7, <1>8, <1>9, <1>10, PassedKeepsJoin
<1>12. /\ DOMAIN mSectionLength' = Pids /\ DOMAIN mReadSectionLength' = Pids
  BY <1>3 DEF CallsInv, sections
<1> QED
  BY <1>1, <1>3, <1>5, <1>6, <1>11, <1>12, StageKeepsCalls

LEMMA StepKeepsCalls ==
  ASSUME StartsInv, CallsInv, Step
  PROVE  CallsInv'
<1>1. Counting /\ UNCHANGED <<units, missed, split>>
  BY DEF Step, Counting, sender
<1>2. CASE TsStage
  BY <1>1, <1>2, TsStageKeepsCalls
<1>3. CASE PsiStage(HoldsSection(Pid, mSectionBuffer'[Pid]))
  <2>1. stage = "psi" /\ callback = NoCallback
    BY <1>3 DEF PsiStage
  <2>2. CASE Pid \in mPsiCallbackMap
    BY <1>1, <1>3, <2>1, <2>2, CollectTableKeepsCalls DEF PsiStage
  <2>3. CASE Pid \notin mPsiCallbackMap
    BY <1>1, <1>3, <2>1, <2>3, PassedByKeepsCalls DEF PsiStage, Proceed
  <2> QED
    BY <2>2, <2>3
<1>4. CASE PesStage
  <2>1. stage = "pes" /\ callback = NoCallback
    BY <1>4 DEF PesStage
  <2>2. CASE Pid \in mPesCallbackMap
    BY <1>1, <1>4, <2>1, <2>2, CollectPesKeepsCalls DEF PesStage
  <2>3. CASE Pid \notin mPesCallbackMap
    BY <1>1, <1>4, <2>1, <2>3, PassedByKeepsCalls DEF PesStage, Proceed
  <2> QED
    BY <2>2, <2>3
<1>5. CASE EndStage \/ CallbackReturns
  BY <1>1, <1>5, LastStepsKeepCalls
<1> QED
  BY <1>2, <1>3, <1>4, <1>5 DEF Step

LEMMA InitCalls == Init => CallsInv
<1> SUFFICES ASSUME Init PROVE CallsInv
  OBVIOUS
<1>1. /\ units = [p \in Pids |-> <<>>] /\ stage = "idle" /\ callback = NoCallback
      /\ mPsiCallbackMap = {} /\ mPesCallbackMap = {} /\ current = NoPacket
      /\ missed = [p \in Pids |-> 0] /\ called = [p \in Pids |-> 0]
      /\ mSectionLength = [p \in Pids |-> 0] /\ mReadSectionLength = [p \in Pids |-> 0]
      /\ mTableId = [p \in Pids |-> PSI_TABLE_ID_PAT] /\ mPesPacket = [p \in Pids |-> NoPes]
  BY DEF Init, InitDemuxer, InitSender, InitSections, InitPes
<1>2. ASSUME NEW p \in PsiPids \cup PesPids PROVE JoinInv(p)
  <2>1. p \in Pids
    BY PidAssumption
  <2>2. PICK list : list = <<>>
    OBVIOUS
  <2>3. DOMAIN list = {} /\ list \in Seq(UnitRecord)
    BY <2>2
  <2>4. Ordered(p, list) /\ list = units[p]
    BY <1>1, <2>1, <2>2, <2>3 DEF Ordered
  <2>5. ~Ahead(p) /\ ~Listening(p)
    BY <1>1 DEF Ahead, Listening
  <2>6. called[p] = 0 /\ Untouched(p)
    BY <1>1, <2>1 DEF Untouched
  <2>7. Joins(p, list)
    BY <2>4, <2>5 DEF Joins, Seen
  <2> QED
    BY <2>4, <2>6, <2>7 DEF JoinInv
<1> QED
  BY <1>1, <1>2 DEF CallsInv

LEMMA CallsInductive == Spec => []CallsInv
<1>1. Init => CallsInv
  BY InitCalls
<1>2. StartsInv /\ CallsInv /\ [Next]_vars => CallsInv'
  <2> SUFFICES ASSUME StartsInv, CallsInv, [Next]_vars PROVE CallsInv'
    OBVIOUS
  <2>1. ASSUME NEW p \in PsiPids \cup PesPids, FeedStart(p) \/ FeedMore(p) PROVE CallsInv'
    BY <2>1, FeedKeepsCalls
  <2>2. CASE FeedNull
    <3>1. /\ UNCHANGED <<registrations, collectors, called, missed, split, units, callback>>
          /\ stage = "idle" /\ stage' = "idle"
      BY <2>2 DEF FeedNull, Feed, demux, PayloadPacket, TsPacket, sender
    <3>2. callback' = NoCallback
      BY <3>1 DEF CallsInv
    <3> QED
      BY <3>1, <3>2, IdleStepKeepsCalls DEF Ahead
  <2>3. CASE Register
    BY <2>3, RegisterKeepsCalls
  <2>4. CASE GiveOrigin \/ UNCHANGED vars
    <3>1. /\ UNCHANGED <<registrations, collectors, called, missed, split, units>>
          /\ UNCHANGED <<stage, current, callback>>
      BY <2>4 DEF GiveOrigin, setOrigin, vars, demuxer, history, sender
    <3> QED
      BY <3>1, IdleStepKeepsCalls DEF CallsInv, Ahead
  <2>5. CASE Step
    BY <2>5, StepKeepsCalls
  <2> QED
    BY <2>1, <2>2, <2>3, <2>4, <2>5 DEF Next
<1> QED
  BY <1>1, <1>2, StartsInductive, PTL DEF Spec

\* However late a callback is registered, and from inside whatever callback of whatever
\* packet, it is called once for every unit that starts from then on and is due, and for
\* no other: addPsiPid and addPesPid leave the collectors alone, which know from the
\* packets themselves where a unit starts.
THEOREM AlwaysJoinsAtNextUnit == Spec => []JoinsAtNextUnit
<1>1. StartsInv /\ CallsInv => JoinsAtNextUnit
  <2> SUFFICES ASSUME StartsInv, CallsInv, stage = "idle",
                      NEW p \in (mPesCallbackMap \cup mPsiCallbackMap) \ (split \cup {0})
               PROVE  called[p] = Cardinality(DueOf(p, units[p], missed[p]))
    BY DEF JoinsAtNextUnit
  <2>1. p \in PsiPids \cup PesPids /\ Listening(p) /\ ~Ahead(p)
    BY DEF StartsInv, RegisteredInv, Listening, Ahead
  <2>2. PICK seen : Joins(p, seen)
    BY <2>1 DEF CallsInv, JoinInv
  <2>3. Answered(p, seen) /\ seen = units[p]
    BY <2>1, <2>2 DEF Joins, Seen
  <2> QED
    BY <2>3 DEF Answered
<1> QED
  BY <1>1, StartsInductive, CallsInductive, PTL
=============================================================================
