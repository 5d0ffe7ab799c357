CONSTANTS
  Ids = {7}
  MinId <- MCOneAutoId
  Delays = {0, 1}
  Periods = {}
  Uids <- MCUids
  MaxJobs = 2
  MaxWaits = 1
  ClockMod = 8
  TimeMod = 16
  SkewMs = 15
  InitClock = 0
  MaxClock = 1
  JobsDeschedule = TRUE
SPECIFICATION FairWaitSpec
INVARIANT FinishedStaysFinished
PROPERTY DueJobsRun
