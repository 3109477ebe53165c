SPECIFICATION Spec
CONSTANTS
  PAGE_FRAME_MAX_COUNT = 6
  PAGING_DIRECTORY_TABLE_MAX_COUNT = 6
  PROCESS_PAGE_FRAME_COUNT_MAX = 3
  PAGE_FRAME_SIZE = 16
  PROCESS_COUNT_MAX = 3
  MaxPid = 5
  NeededFrames = {2, 4}
  TICKS_PER_SECOND = 2
  QUANTUM = 2
  SECONDS = 1
INVARIANTS
  KernelInv
  LivePidsUnique
  OwnDirectory
  UserFramesPrivate
PROPERTIES
  MappingsStable
  ImplementsProcessTable
CHECK_DEADLOCK FALSE
