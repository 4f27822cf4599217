\* Files of up to 3 bytes, and longer ones around the int of 4 bits.
CONSTANTS
  MaxShort = 3
  Files <- MCFiles
  RowsAsked = {0, 1, 2, 3}
  MaxGrowth = 2
  PackageLength = 2
  IntRange = 16
  HeaderLength = 1
  FieldLength = 1
SPECIFICATION FairSpec
INVARIANTS
  TypeOK
  ScanFindsRowStart
  FrameComplete
PROPERTIES
  AnswerEnds
