SPECIFICATION FairSpec
CONSTANTS
  Pools = {s}
  Templates = {t}
  Sizes = {0, 2}
  RealSize = 1
  Web = {w1, w2}
  MaxRequests = 3
  MaxFaults = 1
  None = None
INVARIANTS TypeOK RowHasPool PoolHasRow
PROPERTIES EnteredSizeKept OfferedTemplateKept PagesFollow
