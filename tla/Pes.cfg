SPECIFICATION Spec
CONSTANTS
  Pids = {1}
  TsPacketSize = 3
  TsHeaderSize = 1
  PesHeaderSize = 1
  CCModulus = 3
  Heads <- AllHeads
  AfFlags <- ClockFlags
  MaxUnits = 3
  Faults = {"lose", "repeat", "adaptation"}
  MaxFaults = 2
  MaxUnbounded = 3
CHECK_DEADLOCK FALSE
INVARIANT TypeOK
INVARIANT OriginOfDelivered
INVARIANT DamageIsContained
INVARIANT BeginsWithHeader
INVARIANT CellsInOrder
INVARIANT CCErrorsAreGaps
INVARIANT StatisticsOfArrivals
PROPERTY DeliversUnits
