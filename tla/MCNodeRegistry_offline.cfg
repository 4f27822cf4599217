\* A node whose connection has ended should not stay listed; TLC must refute it.
CONSTANTS
  Nodes = {node}
  Channels = {c1, c2}
  NodeOf <- MCNodeOf
  MaxEvents = 0
  NoChannel = NoChannel
  node = node
SPECIFICATION Spec
INVARIANTS
  OfflineIsUnregistered
CHECK_DEADLOCK FALSE
