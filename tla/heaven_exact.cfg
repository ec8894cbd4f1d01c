\* Leases, clocks and log under crashes, lost responses and repeated releases; no
\* write fails.
SPECIFICATION Spec
CONSTANTS
  l1 = l1  l2 = l2  l3 = l3
  c1 = c1  c2 = c2  k1 = k1  k2 = k2  f1 = f1  None = None
  Clients = {c1, c2}
  Owners = {c1, c2}
  OwnerOf <- MCOwnerOf
  Scopes = {k1, k2}
  Paths = {f1}
  LeaseIds = {l1, l2, l3}
  Endpoints = {"acquire", "release", "inc"}
  MaxFaults = 0
  MaxRequests = 4
  MaxCrashes = 1
SYMMETRY Symmetry
INVARIANTS OneLeasePerScope TableIsReplay AckedLeasesHeld ClocksNeverBehind
PROPERTIES ImplementsLeaseService
CHECK_DEADLOCK FALSE
