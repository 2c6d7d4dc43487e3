SPECIFICATION Spec
CONSTANTS
  MaxNodes = 3
  root = root
  server = server
  x = x
  Names <- TwoNames
  AttrNames <- OneAttr
  NewKinds <- UserKinds
  MaxDepth = 4
  MaxTokens = 5
  Leaves <- FileLeaves
  Server = server
INVARIANTS
  ListsBothWays
  UnlinkedExact
  PoolsTracked
  ReadsBack
  NothingLeft
  ServerElementRead
  CopiesWhole
PROPERTIES IsForest
