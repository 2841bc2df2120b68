----------------------------- MODULE TsDemuxing -----------------------------
(***************************************************************************)
(* A demultiplexer fed with a transport stream of PSI, PES and null PIDs   *)
(* by an application that registers its callbacks when it likes: before    *)
(* the stream, between two packets or inside a callback, as PATCallback    *)
(* and PMTCallback of TsUtilities do.                                      *)
(***************************************************************************)
EXTENDS TsDemuxer, TsSender

CONSTANTS
  PsiPids, PesPids,   (* The PIDs that carry sections, PES packets.        *)
  Registrations,      (* Records [kind, pid, hdl]: what the application    *)
                      (* may register.                                     *)
  ErrorIndicators,    (* Values of transport_error_indicator.              *)
  MaxPackets          (* Bound: packets demultiplexed.                     *)

ASSUME PidAssumption ==
  /\ PsiPids \subseteq Pids /\ PesPids \subseteq Pids
  /\ PsiPids \cap PesPids = {} /\ NullPid \in Pids \ (PsiPids \cup PesPids)

ASSUME RegistrationAssumption ==
  \A r \in Registrations : r.kind \in {"ts", "psi", "pes"} /\ r.pid \in Pids

\* An application registers on a PID what the PAT or the PMT says it carries.
ASSUME CarriedAssumption ==
  \A r \in Registrations :
    (r.kind = "psi" => r.pid \in PsiPids) /\ (r.kind = "pes" => r.pid \in PesPids)

\* The header of a section fits in a packet, behind a pointer_field of 0; its
\* table_id is one of those demux tells apart.
ASSUME DemuxHeadsAssumption ==
  /\ SectionHeaderSize < MaxPayload
  /\ \A h \in Heads :
       /\ "table_id" \in DOMAIN h =>
            h.pointer_field = 0 /\ h.table_id \in TableIds /\ h.section_length \in Nat
       /\ "PES_packet_length" \in DOMAIN h => h.PES_packet_length \in Nat

VARIABLES
  demuxed,            (* History: PIDs of the packets given to demux.      *)
  aborted,            (* History: calls of demux that threw.               *)
  registered,         (* History, per PID: what the application registered.*)
  startOrigins,       (* History, per PID: mOrigin at each unit start.     *)
  missed,             (* History, per PID: units that had started when its *)
                      (* PSI or PES callback was registered first.         *)
  called,             (* History, per PID: calls of that callback.         *)
  split               (* History: PIDs a section header of which was split.*)

sender  == <<units, cc>>
history == <<demuxed, aborted, registered, startOrigins, missed, called, split>>
demuxer == <<registrations, mOrigin, statistics, collectors, stage, current, callback>>
vars    == <<demuxer, sender, history>>

Init ==
  /\ InitDemuxer /\ InitSender
  /\ demuxed = <<>> /\ aborted = 0 /\ registered = [p \in Pids |-> <<>>]
  /\ startOrigins = [p \in Pids |-> <<>>]
  /\ missed = [p \in Pids |-> 0] /\ called = [p \in Pids |-> 0]
  /\ split = {}

UnitSize(p, head) ==
  IF p \in PsiPids THEN head.section_length + TableHeaderSize
  ELSE head.PES_packet_length + PesHeaderSize

Left(p) ==
  IF units[p] = <<>> THEN 0 ELSE UnitSize(p, Last(units[p]).head) - Last(units[p]).sent

\* The pointer_field before a section.
Lead(p) == IF p \in PsiPids THEN <<Filler>> ELSE <<>>

HeadsOf(p) ==
  {h \in Heads : IF p \in PsiPids
                 THEN "table_id" \in DOMAIN h /\ ((h.table_id = PSI_TABLE_ID_PAT) <=> (p = 0))
                 ELSE "PES_packet_length" \in DOMAIN h}

\* Whether a buffer starts with the whole of a section of the PID.
HoldsSection(p, raw) ==
  \E u \in DOMAIN units[p] :
    LET size == UnitSize(p, units[p][u].head)
    IN  size <= Len(raw) /\ SubSeq(raw, 1, size) = Cells(p, u, 1, size)

-----------------------------------------------------------------------------
(* The stream *)

Feed(p, pkt) ==
  /\ Len(demuxed) < MaxPackets
  /\ \E error \in ErrorIndicators : demux([pkt EXCEPT !.errorIndicator = error])
  /\ demuxed' = Append(demuxed, p)
  /\ UNCHANGED <<aborted, registered, missed, called>>

\* A unit starts with a packet as full as it can be, or with one that ends
\* inside the header of its section.
FeedStart(p) ==
  /\ Left(p) = 0
  /\ \E head \in HeadsOf(p) :
     \E n \in {SizeOrLess(MaxPayload - Len(Lead(p)), UnitSize(p, head))}
               \cup IF p \in PsiPids THEN {1} ELSE {} :
       /\ Feed(p, PayloadPacket(p, TRUE, Plain, head,
                                Lead(p) \o Cells(p, CurrentUnit(p) + 1, 1, n)))
       /\ BeginUnit(p, 0, head, n)
       /\ split' = IF p \in PsiPids /\ n < SectionHeaderSize THEN split \cup {p} ELSE split
  /\ startOrigins' = [startOrigins EXCEPT ![p] = Append(@, mOrigin)]

FeedMore(p) ==
  /\ Left(p) > 0
  /\ LET n == SizeOrLess(MaxPayload, Left(p))
         unit == Last(units[p])
     IN  /\ Feed(p, PayloadPacket(p, FALSE, Plain, unit.head,
                                  Cells(p, CurrentUnit(p), unit.sent + 1, unit.sent + n)))
         /\ ResumeUnit(p, n)
  /\ UNCHANGED <<startOrigins, split>>

FeedNull ==
  /\ Feed(NullPid, PayloadPacket(NullPid, FALSE, Plain, <<>>, [i \in 1..MaxPayload |-> Filler]))
  /\ UNCHANGED <<sender, startOrigins, split>>

-----------------------------------------------------------------------------
(* The application *)

\* The units of p that have started for good when a callback of the given kind
\* is registered: not the one whose first packet has yet to reach its stage.
StartedUnits(kind, p) ==
  LET ahead == IF kind = "psi" THEN {"psi"} ELSE {"psi", "pes"}
  IN  IF /\ stage \in ahead /\ current.pid = p
         /\ current.payload_unit_start_indicator
      THEN CurrentUnit(p) - 1 ELSE CurrentUnit(p)

Register ==
  /\ ApiCanBeCalled
  /\ \E r \in Registrations :
       /\ r \notin Range(registered[r.pid])
       /\ CASE r.kind = "ts"  -> addTsPid(r.pid, r.hdl)
            [] r.kind = "psi" -> addPsiPid(r.pid, r.hdl)
            [] r.kind = "pes" -> addPesPid(r.pid, r.hdl)
       /\ registered' = [registered EXCEPT ![r.pid] = Append(@, r)]
       /\ missed' = IF r.kind = "ts" \/ r.pid \in mPsiCallbackMap \cup mPesCallbackMap THEN missed
                    ELSE [missed EXCEPT ![r.pid] = StartedUnits(r.kind, r.pid)]
  /\ UNCHANGED <<mOrigin, statistics, collectors, stage, current, callback,
                 sender, demuxed, aborted, startOrigins, called, split>>

\* The application says where the next packet comes from, or forgets to.
GiveOrigin ==
  /\ stage = "idle"
  /\ setOrigin(Len(demuxed) + 1)
  /\ UNCHANGED <<sender, history>>

\* The stages of a call and the returns from its callbacks.
Step ==
  /\ TsStage \/ PsiStage(HoldsSection(Pid, mSectionBuffer'[Pid])) \/ PesStage \/ EndStage
     \/ CallbackReturns
  /\ aborted' = IF stage' = "idle" /\ mCounters' = mCounters THEN aborted + 1 ELSE aborted
  /\ called' = IF callback = NoCallback /\ callback'.kind \in {"psi", "pes"}
               THEN [called EXCEPT ![callback'.pid] = @ + 1] ELSE called
  /\ UNCHANGED <<sender, demuxed, registered, startOrigins, missed, split>>

Next ==
  \/ \E p \in PsiPids \cup PesPids : FeedStart(p) \/ FeedMore(p)
  \/ FeedNull \/ Register \/ GiveOrigin \/ Step

Spec == Init /\ [][Next]_vars

-----------------------------------------------------------------------------
(* Properties *)

\* The maps, the origins, the counters and the stage have their types.
TypeOK ==
  /\ mTsCallbackMap \subseteq Pids /\ mPsiCallbackMap \subseteq PsiPids
  /\ mPesCallbackMap \subseteq PesPids
  /\ mHandlers \in [Pids -> {NoHandler} \cup {r.hdl : r \in Registrations}]
  /\ mOrigins \in [Pids -> 0..MaxPackets]
  /\ mCounters \in [packets : Nat, null : Nat, errors : Nat]
  /\ stage \in {"idle", "ts", "psi", "pes", "end"}
  /\ (stage = "idle") = (current = NoPacket)

\* Between two calls of demux every packet is accounted for: it was counted,
\* was a null packet, or left demux by an exception (the order of demux).
PacketsAccounted ==
  stage = "idle" =>
    /\ Len(demuxed) = mCounters.packets + mCounters.null + aborted
    /\ mCounters.null = Cardinality({k \in DOMAIN demuxed : demuxed[k] = NullPid})

\* Whenever a PID is registered, in the middle of a unit as well, no callback
\* is given a unit without its start, as long as no section header of the PID is
\* split.  PID 0 is left out: collectTable takes the absent table_id of a new
\* PID for that of a PAT.
LateJoinIsClean ==
  callback.kind \in {"psi", "pes"} /\ callback.pid \notin split \cup {0} =>
    callback.raw[1] \in {<<callback.pid, u, 1>> : u \in DOMAIN units[callback.pid]}

\* Inside a PSI callback getOrigin gives the origin that was set for the packet
\* with the start of the table, whatever was set since.
TableOrigin ==
  callback.kind = "psi" /\ HoldsSection(callback.pid, callback.raw) =>
    mOrigins[callback.pid] = startOrigins[callback.pid][UnitOf(callback.raw[1])]

\* Whether unit u of a list has all been sent and is what the callback of its PID
\* is for: a section of a kind demux calls back for; a PES packet as soon as it is
\* complete, but one that fits its first TS packet not before the next one starts.
IsDue(p, list, u) ==
  LET head == list[u].head
      size == UnitSize(p, head)
  IN  /\ list[u].sent = size
      /\ IF p \in PsiPids THEN CallsBack(p, head.table_id)
         ELSE size > MaxPayload \/ u < Len(list)

DueOf(p, list, before) == {u \in DOMAIN list : u > before /\ IsDue(p, list, u)}

\* A callback, however late or from inside whatever callback it is registered,
\* is given every unit that starts from then on, once, and no other; the split
\* headers of other PIDs, which make demux throw, take nothing from it.
JoinsAtNextUnit ==
  stage = "idle" =>
    \A p \in (mPesCallbackMap \cup mPsiCallbackMap) \ (split \cup {0}) :
      called[p] = Cardinality(DueOf(p, units[p], missed[p]))

\* The three kinds of callback of a PID share one handler.  Whichever of them is
\* called, it is given the one of the last registration on the PID, of any kind
\* and from inside whatever callback of the same packet, and never none.
HandlerIsTheLast ==
  [][callback = NoCallback /\ callback' # NoCallback =>
       LET onPid == registered[callback'.pid]
       IN  onPid # <<>> /\ callback'.hdl = Last(onPid).hdl]_vars
=============================================================================
