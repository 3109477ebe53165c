SPECIFICATION FairFileSystemSpec
CONSTANTS
  CLUSTER_MAP_SIZE = 6
  DIRECTORY_LENGTH = 3
  CLUSTER_SIZE = 2
  SPILL = 1
  a = a
  b = b
  c = c
  Names = {a, b}
  Exts = {""}
  NoExt = ""
  Contents = {"x"}
  Sizes = {0, 3}
  MaxCalls = 4
PROPERTY WriteStores
CHECK_DEADLOCK FALSE
