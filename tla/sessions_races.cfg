SPECIFICATION Spec
CONSTANTS
  alice = alice
  Names = {alice}
  PoolOf <- OwnPool
  Users = {alice}
  VMs = {v1}
  VMPool <- AlicesVMs
  Controls <- EveryVM
  Enforced = {alice}
  Web = {w1, w2}
  Workers = {job}
  AdminActions = {}
  Timeout = 2
  Grace = 1
  Warn = 1
  MaxFaults = 1
  None = None
SYMMETRY WebSymmetry
INVARIANTS TypeOK HardStopAfterGrace
PROPERTIES TimerRestartsOnlyInTheGap SessionKeptWhileRunning
