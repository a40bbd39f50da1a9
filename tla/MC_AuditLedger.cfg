CONSTANTS
  req1 = req1
  req2 = req2
  task = task
  api = api
  worker = worker
  Nobody = Nobody
  Txn <- MCTxn
  Task <- MCTask
  Host <- MCHost
  HostOf <- MCHostOf
  MaxAppends <- MCMaxAppends
SPECIFICATION FairSpec
INVARIANTS
  TypeOK
  ChainIntact
  OnlyUnlockedClash
  FileProjectsChain
PROPERTIES
  AppendOnly
  ImplementsLedger
  EveryTransactionEnds
