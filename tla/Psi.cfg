SPECIFICATION Spec
CONSTANTS
  Pids = {1}
  TsPacketSize = 5
  TsHeaderSize = 1
  TableHeaderSize = 1
  SectionHeaderSize = 2
  CCModulus = 3
  Heads <- Mixed
  AfFlags <- PlainFlags
  MaxUnits = 3
  Faults = {"lose", "repeat", "adaptation"}
  MaxFaults = 1
  Layouts = {"split", "tail"}
CHECK_DEADLOCK FALSE
INVARIANT DamageIsContained
INVARIANT LengthIsOfHead
INVARIANT ReadLengthIsBufferLength
PROPERTY DeliversTables
