SPECIFICATION Spec
CONSTANTS
  Pids = {0, 1, 2, 3, 4, 9}
  NullPid = 99
  PmtPids = {1, 2}
  PesPids = {3, 4}
  TsPacketSize = 4
  TsHeaderSize = 1
  TableHeaderSize = 1
  SectionHeaderSize = 2
  PesHeaderSize = 1
  CCModulus = 16
  Heads <- Contents
  AfFlags = {}
  MaxUnits = 3
  VideoTypes <- Video
  Programs = {"TsUtilities"}
  Options = {}
  MaxPackets = 4
  MaxParses = 1
CHECK_DEADLOCK FALSE
INVARIANT HasAllPmts
