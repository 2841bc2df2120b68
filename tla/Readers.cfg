SPECIFICATION Spec
CONSTANTS
  TsPacketSize = 3
  Programs <- AllPrograms
  Inputs <- ManyInputs
  MaxPackets = 12
  MaxStray = 4
CHECK_DEADLOCK FALSE
INVARIANT TypeOK
INVARIANT FindsEveryPacket
INVARIANT CoversEverySync
INVARIANT NoByteTwice
PROPERTY Finishes
