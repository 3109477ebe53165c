SPECIFICATION OrderlySpec
CONSTANTS
  PAGE_FRAME_MAX_COUNT = 8
  PAGING_DIRECTORY_TABLE_MAX_COUNT = 4
  PROCESS_PAGE_FRAME_COUNT_MAX = 3
  PAGE_FRAME_SIZE = 16
  PROCESS_COUNT_MAX = 4
  MaxPid = 4
  NeededFrames = {2, 4}
  TICKS_PER_SECOND = 1
  QUANTUM = 1
  SECONDS = 1
INVARIANTS
  ContextsOwn
  PsShowsTruth
PROPERTIES
  DirectoriesReleased
  KillTellsTruth
  EveryProcessRuns
CHECK_DEADLOCK FALSE
