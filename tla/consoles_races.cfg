SPECIFICATION FairSpec
CONSTANTS
  VMs = {v1, v2}
  Ports = {n1, n2}
  Web = {w1, w2}
  MaxOpens = 3
  MaxFaults = 1
  None = None
INVARIANTS TypeOK ConsoleKeepsTarget
PROPERTY SessionsAllEnd
