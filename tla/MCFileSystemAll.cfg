SPECIFICATION FileSystemSpec
CONSTANTS
  CLUSTER_MAP_SIZE = 6
  DIRECTORY_LENGTH = 4
  CLUSTER_SIZE = 2
  SPILL = 1
  a = a
  b = b
  c = c
  Names = {a, b, c}
  Exts = {""}
  NoExt = ""
  Contents = {"x"}
  Sizes = {0, 3}
  MaxCalls = 4
SYMMETRY NameSymmetry
INVARIANT DriverInv
CHECK_DEADLOCK FALSE
