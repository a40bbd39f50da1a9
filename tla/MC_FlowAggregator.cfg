CONSTANTS
  f1 = f1
  f2 = f2
  up3 = up3
  up6 = up6
  re3 = re3
  re6 = re6
  Flow = {f1, f2}
  Tcp = {f1}
  Size <- MCSize
  Header <- MCHeader
  Gap <- MCGap
  Start = 1000
  Upload = {up3, up6}
  Replay = {re3, re6}
  Record <- MCRecord
  Timeout <- MCTimeout
  MaxPackets <- MCMaxPackets
  MaxRecords = 6
  MaxLost = 1
SPECIFICATION Spec
INVARIANTS
  TypeOK
  WindowsPartitionFlows
  StoredAsAnswered
  BurstsExceedBaseline
  BeaconsFound
  UncutFlowsJudgedWhole
