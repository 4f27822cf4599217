\* Two async calls share one permit, on a channel of the client.
CONSTANTS
  SyncCalls = {}
  AsyncCalls = {a1, a2}
  OnewayCalls = {}
  Scenarios = {{a1, a2}}
  Channels = {ch1}
  ChannelOf <- MCChannelOf
  AsyncPermits = 1
  OnewayPermits = 1
  FailsFastWhenInactive = TRUE
  NoCall = NoCall
  ch1 = ch1
SYMMETRY Symmetric
SPECIFICATION Spec
INVARIANTS
  TypeOK
  PermitsConserved
  CallbackAtMostOnce
  NoLostCallback
  TableHoldsOnlyPending
  NoneWaitsOnDeadChannel
\* When every call is over only the timer's idle passes remain.
CHECK_DEADLOCK FALSE
