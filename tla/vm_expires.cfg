SPECIFICATION FairSpec
CONSTANTS
  Ids = {1}
  Pools = {alice, bob}
  Expiring = {alice}
  Workers = {job}
  Web = {w1}
  Kinds = {"template"}
  Life = 1
  Week = 2
  MaxVMs = 2
  MaxByHand = 0
  AdminRemoves = TRUE
  MaxQueue = 1
  MaxFaults = 1
  None = None
INVARIANT OnlyFailuresLeaveUnwired
PROPERTY EveryVmExpires
