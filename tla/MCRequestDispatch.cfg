\* Two requests of one connection and one of another, two workers.
CONSTANTS
  c1 = c1
  c2 = c2
  r1 = r1
  r2 = r2
  r3 = r3
  Requests = {r1, r2, r3}
  Channels = {c1, c2}
  ChannelOf <- MCChannelOf
  PoolSize = 2
  MaxPackages = 2
  Nothing = Nothing
SPECIFICATION FairSpec
CHECK_DEADLOCK FALSE
INVARIANTS
  TypeOK
  FramesWhole
PROPERTIES
  EveryRequestAnswered
