--------------------------- MODULE PacketReaders ----------------------------
(***************************************************************************)
(* The four loops that cut an input into TS packets for demux:             *)
(*   "tsparser"   main of apps/tsparser, from a file;                      *)
(*   "file"       TsUtilities::parseTransportFile, from a file;            *)
(*   "data"       TsUtilities::parseTransportStreamData, from memory;      *)
(*   "wasm"       apps/WebAssembly, from memory.                           *)
(* A byte of the input is TRUE when it has the value of the sync byte.  A  *)
(* packet given to demux is written down as the places in the input its    *)
(* bytes come from; Stray is a byte that comes from anywhere else, as the  *)
(* part of a local array that a short read left alone.                     *)
(***************************************************************************)
EXTENDS Integers, Sequences, FiniteSetsExt, Functions

CONSTANTS
  TsPacketSize,    (* TS_PACKET_SIZE, in bytes.                            *)
  Programs,        (* Subset of the four loops.                            *)
  Inputs,          (* Sequences of BOOLEAN.                                *)
  MaxPackets,      (* Bound: packets of a run, for the loop that may not   *)
                   (* end.                                                 *)
  MaxStray         (* Bound: how far past the array parseTransportFile may *)
                   (* look for a sync byte.                                *)

ASSUME ReaderAssumption ==
  /\ TsPacketSize \in Nat \ {0, 1}
  /\ Inputs \subseteq Seq(BOOLEAN)
  /\ MaxPackets \in Nat /\ MaxStray \in Nat

VARIABLES
  program, input,
  pos,             (* Bytes of the input behind the reader.                *)
  packets,         (* History: what demux was given.                       *)
  done

vars == <<program, input, pos, packets, done>>

Stray == 0
Size == Len(input)
IsSync(i) == i \in 1..Size /\ input[i]

\* The packet of the bytes that follow the first `from`.
PacketAt(from) == [i \in 1..TsPacketSize |-> IF from + i <= Size THEN from + i ELSE Stray]

Demux(from) ==
  /\ Len(packets) < MaxPackets
  /\ packets' = Append(packets, PacketAt(from))

Init ==
  /\ program \in Programs /\ input \in Inputs
  /\ pos = 0 /\ packets = <<>> /\ done = FALSE

Finish == done' = TRUE /\ UNCHANGED <<pos, packets>>

-----------------------------------------------------------------------------
(* tsparser: from the next sync byte, a packet and the byte after it are   *)
(* read, and the reader steps back over that byte.                         *)

NextSyncs == {i \in (pos + 1)..Size : IsSync(i)}

BackByPacket(place) == place - TsPacketSize                            \* mutant
NoStepBack(place) == place                                             \* mutant
SteppedBack(place) == place - 1

TsparserPacket ==
  /\ program = "tsparser"
  /\ IF NextSyncs = {} THEN Finish
     ELSE LET sync == Min(NextSyncs)
          IN  /\ Demux(sync - 1)
              /\ pos' = SteppedBack(Min({sync + TsPacketSize, Size}))
              /\ UNCHANGED done

-----------------------------------------------------------------------------
(* parseTransportFile: the first packet says where the first sync byte is, *)
(* then whole packets are read until a read hits the end of the file.      *)

\* Where the search through the array of the first read may stop.  Bytes that
\* were not read may be sync bytes or not.
FirstSyncs ==
  LET known == Min({TsPacketSize, Size})
      syncs == {i \in 1..known : IsSync(i)}
  IN  IF syncs # {} THEN {Min(syncs) - 1} ELSE known..(known + MaxStray)

\* A read of a packet after the first `from` bytes sets the end-of-file flag.
LateEnd(from) == from > Size                                           \* mutant
HitsEnd(from) == from + TsPacketSize > Size

FilePacket ==
  /\ program = "file"
  /\ \E from \in IF packets = <<>> THEN FirstSyncs ELSE {pos} :
       /\ Demux(from)
       /\ pos' = from + TsPacketSize
       /\ done' = HitsEnd(from)

-----------------------------------------------------------------------------
(* parseTransportStreamData: no search, and no look at the sync bytes but   *)
(* the first.  A null pointer is refused as an empty input is.              *)

DataPacket ==
  /\ program = "data"
  /\ IF IsSync(1) /\ pos < Size
     THEN /\ Demux(pos)
          /\ pos' = pos + TsPacketSize
          /\ UNCHANGED done
     ELSE Finish

-----------------------------------------------------------------------------
(* WebAssembly: a packet counts when the byte after it is a sync byte too.  *)
(* A place that does not count is skipped by the increment in the body and  *)
(* the one of the loop.                                                     *)

SkippedTo(place) == place + 1 + TsPacketSize

WasmPacket ==
  /\ program = "wasm"
  /\ IF pos + TsPacketSize >= Size THEN Finish
     ELSE /\ IF IsSync(pos + 1) /\ IsSync(pos + TsPacketSize + 1)
             THEN Demux(pos) /\ pos' = pos + TsPacketSize
             ELSE UNCHANGED packets /\ pos' = SkippedTo(pos)
          /\ UNCHANGED done

-----------------------------------------------------------------------------
Next ==
  /\ ~done
  /\ TsparserPacket \/ FilePacket \/ DataPacket \/ WasmPacket
  /\ UNCHANGED <<program, input>>

\* The loops wait for nothing.
Spec == Init /\ [][Next]_vars /\ WF_vars(Next)

-----------------------------------------------------------------------------
(* Properties *)

\* A loop stops at the latest one packet past the end of what it looks at, and
\* demux is given whole packets of places in the input or of stray bytes.
TypeOK ==
  /\ pos \in 0..(Max({Size, TsPacketSize + MaxStray}) + TsPacketSize)
  /\ packets \in Seq([1..TsPacketSize -> {Stray} \cup 1..Size])
  /\ Len(packets) <= MaxPackets /\ done \in BOOLEAN

\* `lead` bytes without a sync byte, then n whole packets.
IsStream(lead, n) ==
  /\ Size = lead + n * TsPacketSize
  /\ \A i \in 1..lead : ~IsSync(i)
  /\ \A k \in 0..(n - 1) : IsSync(lead + k * TsPacketSize + 1)

\* No other byte of the input has the value of a sync byte.
IsClean(lead) ==
  \A i \in 1..Size : IsSync(i) => i > lead /\ (i - 1 - lead) % TsPacketSize = 0

\* Packets first to last of a stream.
Packets(lead, first, last) ==
  [k \in 1..(last - first + 1) |-> PacketAt(lead + (first + k - 2) * TsPacketSize)]

EndsWithSync == IsSync(Size)

\* tsparser reads the last byte of its input again, and finds a packet there
\* when it has the value of a sync byte; then it never ends.
Ends == ~(program = "tsparser" /\ EndsWithSync)

\* The file reader has one more packet, from no byte of the file.
Given == IF program = "file" THEN SubSeq(packets, 1, Len(packets) - 1) ELSE packets

\* Of a stream of whole packets every loop gives demux every packet, in order
\* and once, whatever their payloads hold; only that of WebAssembly leaves out
\* the last one.  Bytes before the first packet (no sync byte elsewhere) cost
\* the two file loops nothing, and that of WebAssembly as many packets as there are
\* such bytes: it goes on by a packet and a byte until it is in step.
Found(lead, n) ==
  CASE program \in {"tsparser", "file"} -> Packets(lead, 1, n)
    [] program = "wasm" -> Packets(lead, lead + 1, n - 1)
    [] program = "data" -> IF lead = 0 THEN Packets(0, 1, n) ELSE <<>>
FindsEveryPacket ==
  done => \A lead \in 0..(TsPacketSize - 1), n \in 1..Size :
    IsStream(lead, n) /\ (lead = 0 \/ IsClean(lead)) => Given = Found(lead, n)

\* Whatever is in the input, tsparser passes no sync byte by: each is in a
\* packet given to demux, so that a packet is missed only when one that begins
\* inside the bytes before it covers its first byte.
CoversEverySync ==
  done /\ program = "tsparser" =>
    \A i \in 1..Size : IsSync(i) => \E k \in DOMAIN packets : i \in Range(packets[k])

\* No byte of the input is given to demux twice, by any of the loops.
NoByteTwice ==
  Ends => \A j, k \in DOMAIN packets :
    j < k => Range(packets[j]) \cap Range(packets[k]) \subseteq {Stray}

\* The loops end.
Finishes == Ends ~> done
=============================================================================
