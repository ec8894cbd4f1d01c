\* What survives one failing write and one restart; every request is answered under the
\* handlers' fairness.
SPECIFICATION FairSpec
CONSTANTS
  c1 = c1  c2 = c2  k1 = k1  f1 = f1  None = None
  Clients = {c1, c2}
  Owners = {c1, c2}
  OwnerOf <- MCOwnerOf
  Scopes = {k1}
  Paths = {f1}
  LeaseIds = {1, 2, 3}
  Endpoints = {"acquire", "release", "inc", "event", "done"}
  MaxFaults = 1
  MaxRequests = 4
  MaxCrashes = 1
INVARIANTS IndexedLeaseExists
PROPERTIES OnlyOwnerDrops RequestsEnd
CHECK_DEADLOCK FALSE
