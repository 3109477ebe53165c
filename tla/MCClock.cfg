SPECIFICATION FairClockSpec
CONSTANTS
  SECONDS_PER_MINUTE = 2
  MINUTES_PER_HOUR = 2
  PASSES = 3
  Noise <- NoiseValues
INVARIANTS
  ClockInv
  TimeIsRight
PROPERTY ReadEnds
