\* Two nodes, one thread of the pool, a file that is written twice.
CONSTANTS
  n1 = n1
  n2 = n2
  both = both
  one = one
  twice = twice
  garbage = garbage
  Contents = {both, one, twice, garbage}
  Unparsable = {garbage}
  Duplicated = {twice}
  MaxTime = 2
  None = None
  Nodes = {n1, n2}
  Times = {1, 2}
  NoTime = 0
  MaxMisread = 1
  IpLists <- MCIpLists
  ConfiguredIn <- MCConfiguredIn
  Logs <- MCLogs
  PoolThreads = 1
SPECIFICATION FairSpec
INVARIANTS
  TypeOK
  NothingLostSilently
  MergeKeepsOrder
PROPERTIES
  ConfigCatchesUp
  QueryEnds
