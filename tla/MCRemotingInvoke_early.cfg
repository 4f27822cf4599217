\* One sync call: may it be told of a timeout before the timeout?
CONSTANTS
  SyncCalls = {s1}
  AsyncCalls = {}
  OnewayCalls = {}
  Scenarios = {{s1}}
  Channels = {ch1}
  ChannelOf <- MCChannelOf
  AsyncPermits = 1
  OnewayPermits = 1
  FailsFastWhenInactive = TRUE
  NoCall = NoCall
  ch1 = ch1
SPECIFICATION Spec
INVARIANTS
  TimeoutAfterDeadline
CHECK_DEADLOCK FALSE
