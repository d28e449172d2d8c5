SPECIFICATION Spec
CONSTANTS
  Users = {alice, bob}
  Vnets = {1, 2, 3}
  Subnets = {1, 2}
  MaxId = 3
  VnetOf <- VnetPerId
  MaxAttempts = 2
  Workers = {w1, w2}
  MaxFaults = 1
  MaxUnread = 0
  MaxRemovals = 2
  None = None
SYMMETRY NetworkSymmetry
INVARIANT VnetsPrivate
