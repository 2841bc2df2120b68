SPECIFICATION Spec
CONSTANTS
  Pids = {1, 2, 9}
  NullPid = 9
  PsiPids = {1}
  PesPids = {2}
  TsPacketSize = 4
  TsHeaderSize = 1
  TableHeaderSize = 1
  SectionHeaderSize = 2
  PesHeaderSize = 1
  CCModulus = 16
  Heads <- TwoLengths
  AfFlags = {}
  MaxUnits = 2
  Registrations <- ManyHandlers
  ErrorIndicators = {TRUE}
  MaxPackets = 4
CHECK_DEADLOCK FALSE
INVARIANT PacketsAccounted
INVARIANT LateJoinIsClean
INVARIANT TableOrigin
INVARIANT JoinsAtNextUnit
PROPERTY HandlerIsTheLast
