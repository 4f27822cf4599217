\* Two different requests, three messages, one change of the logs.
CONSTANTS
  p1 = p1
  p2 = p2
  none = none
  noIp = noIp
  Params <- MCParams
  NoIp = noIp
  Nothing = none
  MaxMessages = 3
  MaxChanges = 1
SPECIFICATION FairSpec
INVARIANTS
  TypeOK
  FetchesSomething
PROPERTIES
  PushThreadEnds
  CatIsAnswered
  StopSilences
  PushCatchesUp
CHECK_DEADLOCK FALSE
