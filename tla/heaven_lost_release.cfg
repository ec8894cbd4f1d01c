\* One failing write of lease_released, then a restart.
SPECIFICATION Spec
CONSTANTS
  c1 = c1  c2 = c2  k1 = k1  k2 = k2  f1 = f1  None = None
  Clients = {c1, c2}
  Owners = {c1, c2}
  OwnerOf <- MCOwnerOf
  Scopes = {k1}
  Paths = {f1}
  LeaseIds = {1, 2}
  Endpoints = {"acquire", "release"}
  MaxFaults = 1
  MaxRequests = 4
  MaxCrashes = 1
INVARIANTS OneLeasePerScope
CHECK_DEADLOCK FALSE
