SPECIFICATION JobsSpec
CONSTANTS
  daily = daily
  evening = evening
  Jobs <- TwoJobs
  Time <- TwoTimes
  Settings <- TwoSettings
  HealthRetries = 2
  MaxBadStarts = 1
  LastMinute = 2
  MaxDays = 3
  MaxClockSets = 1
  MaxJobFaults = 1
  MaxRestarts = 1
CHECK_DEADLOCK FALSE
INVARIANTS
  OncePerDay
  NoDaySkipped
