CONSTANTS
  s1 = s1
  s2 = s2
  alice = alice
  bob = bob
  low = low
  high = high
  found = found
  Nobody = Nobody
  Socket = {s1, s2}
  Client = {alice, bob}
  IdOf <- TwoDashboards
  Level = {1, 2}
  Query <- MCQuery
  Change <- MCChange
  ApiAlert = {low}
  WorkerAlert = {found}
  Severity <- LowAndFound
  MaxUpdates <- OneUpdate
SPECIFICATION FairSpec
INVARIANTS
  TypeOK
  FilterHonoured
  OncePerPath
  ServedIsListed
PROPERTIES
  ApiAlertsArrive
