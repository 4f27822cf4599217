\* README.md says that an unchanged log is not pushed again; TLC must refute it.
CONSTANTS
  p1 = p1
  p2 = p2
  none = none
  noIp = noIp
  Params <- MCParams
  NoIp = noIp
  Nothing = none
  MaxMessages = 3
  MaxChanges = 1
SPECIFICATION Spec
PROPERTIES
  NoRepeatedPush
CHECK_DEADLOCK FALSE
