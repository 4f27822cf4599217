\* Two callers, and connections that follow one another.
CONSTANTS
  Callers = {t1, t2}
  Addrs = {center}
  center = center
  Channels = {c1, c2}
  AddrOf <- MCAddrOf
  NoChannel = NoChannel
  Nobody = Nobody
SPECIFICATION FairSpec
INVARIANTS
  TypeOK
  PendingIsShared
  NoOrphan
PROPERTIES
  EndedFailsFast
  CallsReturn
