SPECIFICATION Spec
CONSTANTS
  VMs = {v1, v2}
  Slots = {0, 1}
  Cores = {1, 2}
  Mems = {1024, 1536, 2048}
  Sizes = {1, 2}
  Template <- MCTemplate
  Limits <- MCLimits
  Web = {w1, w2}
  MaxRequests = 2
  MaxFaults = 1
  None = None
SYMMETRY Symmetry
INVARIANT TypeOK
PROPERTIES LimitsHold DisksStay
