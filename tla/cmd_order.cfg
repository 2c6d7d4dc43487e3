SPECIFICATION FairSpec
CONSTANTS
  ReceMax = 80
  HeadSize = 11
  MarkSize = 3
  Lens = {0, 4, 13}
  MaxMessages = 8
INVARIANTS
  ExecutedInOrder
  WholeFrame
PROPERTIES
  StoredThenExecuted
