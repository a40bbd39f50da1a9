SPECIFICATION Spec
CONSTANTS
  Alert = {a1, a2}
  Mock = Mock
  Status = {"NEW", "RESOLVED"}
  Triage = {t1, t2}
  Keep = 3
  Page = 1
  MaxRequests = 3
  MaxMocks = 1
INVARIANTS
  TypeOK
  OfflineAfterFailedRetry
  AuditTellsStatus
  StatusOnScreenIsStored
  SentOrListedIsShown
SYMMETRY Symmetry
CHECK_DEADLOCK FALSE
