SPECIFICATION Spec
CONSTANTS
  Pids = {1}
  TsPacketSize = 4
  TsHeaderSize = 1
  PesHeaderSize = 1
  CCModulus = 4
  Heads <- AllHeads
  AfFlags <- PlainFlags
  MaxUnits = 2
  Faults = {"adaptation"}
  MaxFaults = 1
  MaxUnbounded = 4
CHECK_DEADLOCK FALSE
INVARIANT ReturnsPesPackets
