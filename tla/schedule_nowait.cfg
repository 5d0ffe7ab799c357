CONSTANTS
  Ids = {7}
  MinId <- MCOneAutoId
  Delays = {0, 1}
  Periods = {1}
  Uids <- MCUids
  MaxJobs = 3
  MaxWaits = 0
  ClockMod = 8
  TimeMod = 32
  SkewMs = 15
  InitClock = 0
  MaxClock = 1
  JobsDeschedule = TRUE
SPECIFICATION Spec
INVARIANTS TypeOK Pinned CleanWhenUnlocked QueueOrder JobsKept
PROPERTY KeepsPromise
