\* What the comment of LogUtil says of the number of rows.
CONSTANTS
  MaxShort = 3
  Files <- MCFiles
  RowsAsked = {0, 1, 2, 3}
  MaxGrowth = 0
  PackageLength = 2
  IntRange = 16
  HeaderLength = 1
  FieldLength = 1
SPECIFICATION Spec
INVARIANTS
  LastRowsRead
