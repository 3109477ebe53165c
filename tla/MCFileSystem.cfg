SPECIFICATION CarefulSpec
CONSTANTS
  CLUSTER_MAP_SIZE = 6
  DIRECTORY_LENGTH = 5
  CLUSTER_SIZE = 2
  SPILL = 1
  a = a
  b = b
  c = c
  Names = {a, b}
  Exts = {""}
  NoExt = ""
  Contents = {"x"}
  Sizes = {0, 1, 3}
  MaxCalls = 0
SYMMETRY NameSymmetry
INVARIANTS
  ChainsOwn
  ParentLinks
  CrashConfined
  FilesReadBack
PROPERTIES
  OnlyDeleteAllLeaks
  ImplementsFileTree
CHECK_DEADLOCK FALSE
