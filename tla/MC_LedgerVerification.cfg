CONSTANTS
  req = req
  task = task
  api = api
  Nobody = Nobody
  Txn <- MCTxn
  Task <- MCTask
  Host <- MCHost
  HostOf <- MCHostOf
  MaxAppends <- MCMaxAppends
  Auditor = api
  Damages <- DamageKinds
SPECIFICATION VerifySpec
INVARIANTS
  VerifyTypeOK
  DamageLocated
  OnlyLoneCopiesLost
  AlarmHasCause
