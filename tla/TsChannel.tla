----------------------------- MODULE TsChannel ------------------------------
(***************************************************************************)
(* What happens to a TS packet between the sender and the demultiplexer:   *)
(* it arrives, it is lost, the last one arrives again, or the sender puts  *)
(* in a packet without payload.  External, as the sender is.               *)
(***************************************************************************)
EXTENDS TsSender

CONSTANTS
  Faults,          (* Subset of {"lose", "repeat", "adaptation"}.          *)
  MaxFaults        (* Bound: faults in a behaviour.                        *)

ASSUME ChannelAssumption ==
  /\ Faults \subseteq {"lose", "repeat", "adaptation"}
  /\ MaxFaults \in Nat

VARIABLES
  lastPacket,      (* Per PID: the last packet sent, which may be repeated.*)
  damaged,         (* History, per PID: units that came to harm.           *)
  faults,          (* Faults so far.                                       *)
  happened         (* History: their kinds.                                *)

channel == <<lastPacket, damaged, faults, happened>>

NoPacket == <<>>

InitChannel ==
  /\ lastPacket = [p \in Pids |-> NoPacket]
  /\ damaged = [p \in Pids |-> {}]
  /\ faults = 0 /\ happened = {}

Remember(p, pkt) == lastPacket' = [lastPacket EXCEPT ![p] = pkt]

Fault(kind, p, touched) ==
  /\ kind \in Faults /\ faults < MaxFaults
  /\ faults' = faults + 1
  /\ happened' = happened \cup {kind}
  /\ damaged' = [damaged EXCEPT ![p] = @ \cup touched]

\* No fault, though what the sender put in the packet may do harm.
Harms(p, touched) ==
  /\ UNCHANGED <<faults, happened>>
  /\ damaged' = [damaged EXCEPT ![p] = @ \cup touched]

\* A packet may be repeated once, as ISO/IEC 13818-1 has it.
Repeatable(p) ==
  /\ lastPacket[p] # NoPacket
  /\ Remember(p, NoPacket)

ChannelTypeOK ==
  /\ cc \in [Pids -> 0..(CCModulus - 1)]
  /\ damaged \in [Pids -> SUBSET (1..MaxUnits)]
  /\ faults \in 0..MaxFaults /\ happened \subseteq Faults
=============================================================================
