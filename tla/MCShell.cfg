SPECIFICATION MCSpec
CONSTANTS
  CLUSTER_MAP_SIZE = 7
  DIRECTORY_LENGTH = 5
  CLUSTER_SIZE = 2
  SPILL = 1
  a = a
  b = b
  Names = {a, b}
  Exts = {""}
  NoExt = ""
  Contents = {"x"}
  Sizes = {0, 2, 3}
  MaxCalls = 4
  Paths <- TypedPaths
  FirstFile = a
  FirstSize = 3
  Size = 6
  ByteValues <- SomeBytes
  Numbers <- SomeNumbers
  STRLEN_RANGE = 5
INVARIANTS
  ShellInv
  FindsAll
  LineUnderstood
PROPERTIES
  ShellsKeepTree
  CommandsDoAsAsked
CHECK_DEADLOCK FALSE
