SPECIFICATION Spec
CONSTANTS
  Users = {alice, bob}
  Vnets = {1, 2, 3}
  Subnets = {1, 2, 3}
  MaxId = 3
  VnetOf <- VnetPerId
  MaxAttempts = 2
  Workers = {w1, w2}
  MaxFaults = 2
  MaxUnread = 1
  MaxRemovals = 0
  None = None
SYMMETRY NetworkSymmetry
INVARIANTS TypeOK VnetsPrivate SubnetsPrivate AppliedUnlessAdopted
PROPERTIES NetworkStable ImplementsNetworks
