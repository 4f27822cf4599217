\* One node with two connections in turn, and an event queue of one place.
CONSTANTS
  Nodes = {node}
  Channels = {c1, c2}
  NodeOf <- MCNodeOf
  MaxEvents = 0
  NoChannel = NoChannel
  node = node
SPECIFICATION FairSpec
INVARIANTS
  TypeOK
PROPERTIES
  StaysRegistered
  HalfOpenIsClosed
  ClosedIsUnregistered
  CloseEchoEnds
CHECK_DEADLOCK FALSE
