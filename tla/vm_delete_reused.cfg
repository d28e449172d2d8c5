SPECIFICATION Spec
CONSTANTS
  Ids = {1, 2}
  Pools = {alice}
  Expiring = {alice}
  Workers = {job}
  Web = {w1}
  Kinds = {"create"}
  Life = 1
  Week = 1
  MaxVMs = 2
  MaxByHand = 0
  AdminRemoves = FALSE
  MaxQueue = 2
  MaxFaults = 0
  None = None
INVARIANT DeletesWhatWasAsked
