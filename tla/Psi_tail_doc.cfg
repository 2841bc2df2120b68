SPECIFICATION Spec
CONSTANTS
  Pids = {1}
  TsPacketSize = 5
  TsHeaderSize = 1
  TableHeaderSize = 1
  SectionHeaderSize = 2
  CCModulus = 4
  Heads <- Tables
  AfFlags <- PlainFlags
  MaxUnits = 2
  Faults = {}
  MaxFaults = 0
  Layouts = {"tail"}
CHECK_DEADLOCK FALSE
INVARIANT FindsTables
