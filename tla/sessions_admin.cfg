SPECIFICATION Spec
CONSTANTS
  alice = alice
  Names = {alice}
  PoolOf <- OwnPool
  Users = {alice}
  VMs = {v1, v2}
  VMPool <- AlicesVMs
  Controls <- EveryVM
  Enforced = {alice}
  Web = {w1}
  Workers = {job}
  AdminActions = {"expire", "warn"}
  Timeout = 1
  Grace = 1
  Warn = 0
  MaxFaults = 0
  None = None
SYMMETRY VMSymmetry
INVARIANT HardStopAfterGrace
PROPERTIES TimerRestartsOnlyInTheGap SessionKeptWhileRunning
