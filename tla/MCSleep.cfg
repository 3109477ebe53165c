SPECIFICATION SleepSpec
CONSTANTS
  PROCESSES = 3
  TICKS_PER_SECOND = 6
  QUANTUM = 2
  WORD = 16
  Durations <- SleepDurations
INVARIANT SleepInv
PROPERTIES
  LastsItsDuration
  MissedOnlyWithoutCPU
