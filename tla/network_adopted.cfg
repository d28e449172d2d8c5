SPECIFICATION Spec
CONSTANTS
  Users = {alice, bob}
  Vnets = {1, 2, 3}
  Subnets = {1, 2}
  MaxId = 3
  VnetOf <- VnetPerId
  MaxAttempts = 2
  Workers = {w1}
  MaxFaults = 1
  MaxUnread = 0
  MaxRemovals = 0
  None = None
SYMMETRY NetworkSymmetry
INVARIANT AttachedIsFirewalled
