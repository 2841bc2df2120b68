-------------------------- MODULE MCPacketReaders ---------------------------
(* Instances of PacketReaders for TLC. *)
EXTENDS PacketReaders

AllPrograms == {"tsparser", "file", "data", "wasm"}

\* Every input of up to ten bytes.
AllInputs == UNION {[1..n -> BOOLEAN] : n \in 0..10}

\* Clean streams long enough for the WebAssembly loop to fall in step.
CleanStreams ==
  {[i \in 1..(lead + 3 * n) |-> i > lead /\ (i - 1 - lead) % 3 = 0] :
     lead \in 0..2, n \in 1..6}
ManyInputs == AllInputs \cup CleanStreams
=============================================================================
