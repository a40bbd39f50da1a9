CONSTANTS
  s1 = s1
  s2 = s2
  alice = alice
  bob = bob
  low = low
  high = high
  found = found
  Nobody = Nobody
  Socket = {s1, s2}
  Client = {alice, bob}
  IdOf <- OneReconnects
  Level = {1, 2}
  Query <- MCQuery
  Change <- MCChange
  ApiAlert = {high}
  WorkerAlert = {}
  Severity <- OnlyHigh
  MaxUpdates <- NoUpdates
SPECIFICATION FairSpec
INVARIANTS
  ServedIsListed
