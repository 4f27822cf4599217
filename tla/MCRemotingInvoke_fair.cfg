\* A sync call, or an async and a oneway call, on a channel of
\* the server, whose channelInactive does not fail them.
CONSTANTS
  SyncCalls = {s1}
  AsyncCalls = {a1}
  OnewayCalls = {o1}
  Scenarios = {{s1}, {a1, o1}}
  Channels = {ch1}
  ChannelOf <- MCChannelOf
  AsyncPermits = 1
  OnewayPermits = 1
  FailsFastWhenInactive = FALSE
  NoCall = NoCall
  ch1 = ch1
SPECIFICATION FairSpec
ACTION_CONSTRAINT InScenario
INVARIANTS
  VerdictHasCause
PROPERTIES
  ResponseNotOverwritten
  SyncReturns
  AsyncCalledBack
  PermitsComeBack
  KeepsContract
CHECK_DEADLOCK FALSE
